---- MODULE Spec2Model ----
(***************************************************************************)
(* Model of the bond-yield chart of kfix97/bondyields.                     *)
(*                                                                         *)
(* BondChart (src/unnamed/part_008) is modelled as a React component: its  *)
(* props and useState cells are the variables, one action per event        *)
(* handler and one for the flush of its passive effects, and everything a  *)
(* render computes (selected range, business-day axis, forward-filled      *)
(* yield maps, rows of the charted dataset) is an operator of the state,   *)
(* translated statement by statement from the render body.                 *)
(*                                                                         *)
(* Representation.                                                         *)
(*   date string  'YYYY-MM-DD' is the number of days since 2022-12-30 (a   *)
(*                Friday); EmptyStr is '' and BadStr a string that         *)
(*                `new Date()` cannot parse.                               *)
(*   Date         its time value in ticks of 12 h (TicksPerDay ticks a     *)
(*                day), NaN for an Invalid Date.  A parsed date string is  *)
(*                a UTC midnight; `new Date()` is Now, inside day Today.   *)
(*                The process time zone is UTC, as in the test runs.       *)
(*   yield        tenths of a percent (36 is 3.6 %), Null for null.        *)
(*   Map          a function from date strings to yields; a key that is    *)
(*                absent from the domain is `undefined`.                   *)
(***************************************************************************)
EXTENDS Integers, Sequences, FiniteSets, TLC

VARIABLES
    data,               \* prop `data`: sequence of ChartDataPoint
    disableDateFilter,  \* prop `disableDateFilter`
    startDate,          \* useState('')   startDate
    endDate,            \* useState('')   endDate
    isClient,           \* useState(false) isClient
    error,              \* useState(null) error
    view,               \* what the last render computed and returned
    phase,              \* "effects": rendered, passive effects pending;
                        \* "idle": rendered and settled; "crashed": an
                        \* effect threw and React unmounted the tree;
                        \* "off": the component is not mounted
    cal,                \* getBusinessDaysInRange in progress, one loop
                        \* iteration per step (CalendarSpec)
    route,              \* one call of GET /api/bonds, one step per await
                        \* (RouteSpec)
    page,               \* BondsPage: its useState cells, pending timers
                        \* and fetches in flight (PageSpec)
    fetchStart          \* the fetchStartDate computation of GET /api/bonds
                        \* on its own (FetchStartSpec)

vars == <<data, disableDateFilter, startDate, endDate, isClient, error, view, phase, cal,
          route, page, fetchStart>>

(***************************************************************************)
(* Bounds of the model.                                                    *)
(***************************************************************************)
MaxDay == 5          \* observation and user dates range over days 0..MaxDay
MaxExtra == 1        \* observations added to a base dataset
MaxRangeObs == 3     \* Treasury observations of a sparse (gap) dataset
MaxCalDay == 10      \* dates given to getBusinessDaysInRange in CalendarSpec
MaxRouteObs == 2     \* observations in one upstream range response

(***************************************************************************)
(* Values.                                                                 *)
(***************************************************************************)
NaN == 0 - 1         \* time value of an Invalid Date
Null == 0 - 1000     \* null yield / absent value of a row
EmptyStr == 0 - 2    \* ''
BadStr == 0 - 1      \* a date string that does not parse
TicksPerDay == 2     \* 1000 * 60 * 60 * 24 ms, in ticks of 12 h
EpochWeekday == 5    \* getDay() of day 0, 2022-12-30 (Friday)
OutlierGapDays == 7  \* a gap of more than 7 days marks an outlier
YieldScale == 10     \* yield units per percentage point
BasisPoints == 100   \* "* 100": percentage points to basis points
Today == 17          \* the day of the render, 2023-01-16 (new Date())
Now == Today * TicksPerDay + 1   \* new Date(): some instant inside Today

(***************************************************************************)
(* Date primitives.                                                        *)
(***************************************************************************)
\* new Date(dateStr).getTime()
ParseDate(s) == IF s >= 0 THEN s * TicksPerDay ELSE NaN

\* isNaN(date.getTime())
IsInvalid(t) == t = NaN

\* date.toISOString().split('T')[0] of a valid Date
IsoDate(t) == t \div TicksPerDay

\* formatDate(date.toISOString()): local Y-M-D of the instant (UTC zone)
FormatDate(t) == t \div TicksPerDay

\* date.getDay(): 0 is Sunday, 6 is Saturday
GetDay(t) == (IsoDate(t) + EpochWeekday) % 7

IsWeekend(t) == GetDay(t) = 0 \/ GetDay(t) = 6

\* relational operators on Dates: every comparison with NaN is false
DateLT(a, b) == a # NaN /\ b # NaN /\ a < b
DateLE(a, b) == a # NaN /\ b # NaN /\ a <= b
DateGT(a, b) == DateLT(b, a)
DateGE(a, b) == DateLE(b, a)

(***************************************************************************)
(* getBusinessDaysInRange, as a loop: CalStart is the state before the     *)
(* while, CalStep one iteration, CalRun the whole call.                    *)
(***************************************************************************)
CalIdle == [pc |-> "idle", startDate |-> NaN, endDate |-> NaN,
            currentDate |-> NaN, dates |-> <<>>]

CalStart(s, e) ==
    IF IsInvalid(s) \/ IsInvalid(e)
    THEN [pc |-> "done", startDate |-> s, endDate |-> e,
          currentDate |-> NaN, dates |-> <<>>]
    ELSE [pc |-> "loop", startDate |-> s, endDate |-> e,
          currentDate |-> s, dates |-> <<>>]

\* mutant of CalStep: the end day is excluded (< for <=)
CalStepExclusiveEnd(c) ==
    IF DateLT(c.currentDate, c.endDate)
    THEN [c EXCEPT !.dates = IF IsWeekend(c.currentDate) THEN @
                             ELSE Append(@, c.currentDate),
                   !.currentDate = @ + TicksPerDay]
    ELSE [c EXCEPT !.pc = "done"]

\* one evaluation of the while condition and, when it holds, of the body
CalStep(c) ==
    IF DateLE(c.currentDate, c.endDate)
    THEN [c EXCEPT !.dates = IF IsWeekend(c.currentDate) THEN @
                             ELSE Append(@, c.currentDate),
                   !.currentDate = @ + TicksPerDay]
    ELSE [c EXCEPT !.pc = "done"]

RECURSIVE CalRun(_)
CalRun(c) == IF c.pc = "done" THEN c.dates ELSE CalRun(CalStep(c))

GetBusinessDaysInRange(s, e) == CalRun(CalStart(s, e))

(***************************************************************************)
(* Array.prototype.sort with a comparator on a numeric key: stable.        *)
(***************************************************************************)
\* s sorted by keys (keys[i] is the key of s[i]); equal keys keep their
\* order.  The two arguments are evaluated once, as the pair p.
StableSort(s, keys) ==
    LET Sorted(p) ==
            LET n == Len(p[1])
                rank == [i \in 1..n |->
                            Cardinality({m \in 1..n :
                                            \/ p[2][m] < p[2][i]
                                            \/ (p[2][m] = p[2][i] /\ m <= i)})]
            IN  [j \in 1..n |-> p[1][CHOOSE i \in 1..n : rank[i] = j]]
    IN  CHOOSE r \in {Sorted(p) : p \in {<<s, keys>>}} : TRUE

PointTime(d) == ParseDate(d.date)
PointTimes(xs) == [i \in 1..Len(xs) |-> PointTime(xs[i])]
IsValidTime(t) == ~IsInvalid(t)

\* xs.map(d => new Date(d.date)).filter(d => !isNaN(d.getTime())).sort(...)
SortedValidDates(xs) ==
    LET dates == SelectSeq(PointTimes(xs), IsValidTime)
    IN  StableSort(dates, dates)

(***************************************************************************)
(* The render body of BondChart.                                           *)
(***************************************************************************)
IsTreasury(d) == d.source = "Treasury"
IsCorporate(d) == d.source = "Corporate"
\* mutant of HasPositiveYield: every yield that is not null passes
HasAnyYield(d) == d.yield # Null

\* d.yield > 0 (false for a null yield)
HasPositiveYield(d) == d.yield > 0

\* data.filter(d => d.source === 'Treasury')
TreasuryData(dat) == SelectSeq(dat, IsTreasury)

\* data.filter(Corporate).filter(d => d.yield > 0).sort(by date)
CorporateData(dat) ==
    LET kept == SelectSeq(SelectSeq(dat, IsCorporate), HasPositiveYield)
    IN  StableSort(kept, PointTimes(kept))

\* useMemo minDate / maxDate
MemoDate(str) ==
    IF str # EmptyStr
    THEN (IF IsInvalid(ParseDate(str)) THEN Now ELSE ParseDate(str))
    ELSE Now

\* (a.getTime() - b.getTime()) / (1000 * 60 * 60 * 24)
DaysDiff(a, b) == (a - b) \div TicksPerDay

\* the end of the range in disableDateFilter mode, from >= 2 sorted dates
\* mutant of TrimmedEnd: the last date is always the end
TrimmedEndNoTrim(treasuryDates) == treasuryDates[Len(treasuryDates)]

TrimmedEnd(treasuryDates) ==
    LET n == Len(treasuryDates)
        lastTreasuryDate == treasuryDates[n]
        secondLastTreasuryDate == treasuryDates[n - 1]
        daysDiff == DaysDiff(lastTreasuryDate, secondLastTreasuryDate)
    IN  IF daysDiff > OutlierGapDays
        THEN secondLastTreasuryDate
        ELSE IF n >= 3
             THEN LET thirdLastTreasuryDate == treasuryDates[n - 2]
                      daysDiff2 == DaysDiff(secondLastTreasuryDate, thirdLastTreasuryDate)
                  IN  IF daysDiff > OutlierGapDays /\ daysDiff2 > OutlierGapDays
                      THEN thirdLastTreasuryDate
                      ELSE lastTreasuryDate
             ELSE lastTreasuryDate

\* earliest / latest valid Treasury date, or today
TreasuryBounds(dat) ==
    LET treasuryDates == SortedValidDates(TreasuryData(dat))
    IN  IF Len(TreasuryData(dat)) > 0 /\ Len(treasuryDates) > 0
        THEN [start |-> treasuryDates[1], end |-> treasuryDates[Len(treasuryDates)]]
        ELSE [start |-> Now, end |-> Now]

\* lines 168-295: the branch that picks selectedStart / selectedEnd
CandidateRange(dat, ddf, sd, ed) ==
    IF ddf
    THEN IF Len(TreasuryData(dat)) > 0
         THEN LET treasuryDates == SortedValidDates(TreasuryData(dat))
              IN  IF Len(treasuryDates) = 0
                  THEN [start |-> Now, end |-> Now]
                  ELSE [start |-> treasuryDates[1],
                        end |-> IF Len(treasuryDates) >= 2
                                THEN TrimmedEnd(treasuryDates)
                                ELSE treasuryDates[1]]
         ELSE IF Len(dat) > 0
              THEN LET allDates == SortedValidDates(dat)
                   IN  IF Len(allDates) > 0
                       THEN [start |-> allDates[1], end |-> allDates[Len(allDates)]]
                       ELSE [start |-> Now, end |-> Now]
              ELSE [start |-> MemoDate(sd), end |-> MemoDate(ed)]
    ELSE IF sd # EmptyStr /\ ed # EmptyStr
         THEN IF ~IsInvalid(ParseDate(sd)) /\ ~IsInvalid(ParseDate(ed))
              THEN [start |-> ParseDate(sd), end |-> ParseDate(ed)]
              ELSE TreasuryBounds(dat)
         ELSE TreasuryBounds(dat)

\* lines 297-331: an invalid bound is recomputed from the Treasury data
ValidatedRange(dat, r) ==
    [start |-> IF IsInvalid(r.start) THEN TreasuryBounds(dat).start ELSE r.start,
     end |-> IF IsInvalid(r.end) THEN TreasuryBounds(dat).end ELSE r.end]

\* mutant of OrderedRange: the swap is missing
OrderedRangeNoSwap(r) == r

\* lines 333-337: swap when selectedEnd < selectedStart
OrderedRange(r) ==
    IF DateLT(r.end, r.start) THEN [start |-> r.end, end |-> r.start] ELSE r

\* lines 339-361: last-resort fallback to the current date
FinalRange(r) ==
    [start |-> IF IsInvalid(r.start) THEN Now ELSE r.start,
     end |-> IF IsInvalid(r.end) THEN Now ELSE r.end]

\* selectedStart / selectedEnd of a render
SelectedRange(dat, ddf, sd, ed) ==
    FinalRange(OrderedRange(ValidatedRange(dat, CandidateRange(dat, ddf, sd, ed))))

(***************************************************************************)
(* Forward fill (lines 368-436).                                           *)
(***************************************************************************)
EmptyMap == [k \in {} |-> Null]
MapSet(m, k, v) == (k :> v) @@ m
MapHas(m, k) == k \in DOMAIN m

SetMax(S) == CHOOSE x \in S : \A y \in S : y <= x
SetMin(S) == CHOOSE x \in S : \A y \in S : x <= y

\* corporateData.filter(d => new Date(d.date) <= selectedEnd).sort(by date)
FilteredCorporateData(dat, selectedEnd) ==
    LET UpToEnd(d) == DateLE(PointTime(d), selectedEnd)
        kept == SelectSeq(CorporateData(dat), UpToEnd)
    IN  StableSort(kept, PointTimes(kept))

\* mutant of MostRecentIndex: the scan runs up from the start of the array
MostRecentIndexFirst(filtered, businessDayTime) ==
    LET hits == {i \in 1..Len(filtered) :
                    /\ DateLE(PointTime(filtered[i]), businessDayTime)
                    /\ filtered[i].yield > 0}
    IN  IF hits = {} THEN 0 ELSE SetMin(hits)

\* the for loop of lines 390-397: the last index i, scanning down from the
\* end, with date <= businessDay and yield > 0; 0 when there is none
MostRecentIndex(filtered, businessDayTime) ==
    LET hits == {i \in 1..Len(filtered) :
                    /\ DateLE(PointTime(filtered[i]), businessDayTime)
                    /\ filtered[i].yield > 0}
    IN  IF hits = {} THEN 0 ELSE SetMax(hits)

\* corporateYieldMap after the forEach over businessDays
CorporateYieldMap(dat, selectedEnd, businessDays) ==
    LET filtered == FilteredCorporateData(dat, selectedEnd)
        f[i \in 0..Len(businessDays)] ==
            IF i = 0
            THEN [map |-> EmptyMap, lastKnown |-> Null]
            ELSE LET prev == f[i - 1]
                     dateStr == IsoDate(businessDays[i])
                     j == MostRecentIndex(filtered, businessDays[i])
                 IN  IF j # 0
                     THEN [map |-> MapSet(prev.map, dateStr, filtered[j].yield),
                           lastKnown |-> filtered[j].yield]
                     ELSE IF prev.lastKnown # Null
                          THEN [prev EXCEPT !.map = MapSet(@, dateStr, prev.lastKnown)]
                          ELSE prev
    IN  f[Len(businessDays)].map

\* treasuryData.filter(d => new Date(d.date) <= selectedEnd), sorted in
\* place by date at line 421 (a no-op on the empty array)
TreasuryDataForFilling(dat, selectedEnd) ==
    LET UpToEnd(d) == DateLE(PointTime(d), selectedEnd)
        kept == SelectSeq(TreasuryData(dat), UpToEnd)
    IN  StableSort(kept, PointTimes(kept))

\* treasuryDataForFilling.find(d => d.date === dateStr): its index, or 0
FindByDate(xs, dateStr) ==
    LET hits == {i \in 1..Len(xs) : xs[i].date = dateStr}
    IN  IF hits = {} THEN 0 ELSE SetMin(hits)

\* treasuryYieldMap after the forEach over businessDays
TreasuryYieldMap(dat, selectedEnd, businessDays) ==
    LET filling == TreasuryDataForFilling(dat, selectedEnd)
        initial == IF Len(filling) > 0 THEN filling[1].yield ELSE Null
        f[i \in 0..Len(businessDays)] ==
            IF i = 0
            THEN [map |-> EmptyMap, lastKnown |-> initial]
            ELSE LET prev == f[i - 1]
                     dateStr == IsoDate(businessDays[i])
                     j == FindByDate(filling, dateStr)
                 IN  IF j # 0 /\ filling[j].yield # Null
                     THEN [map |-> MapSet(prev.map, dateStr, filling[j].yield),
                           lastKnown |-> filling[j].yield]
                     ELSE IF prev.lastKnown # Null
                          THEN [prev EXCEPT !.map = MapSet(@, dateStr, prev.lastKnown)]
                          ELSE prev
    IN  f[Len(businessDays)].map

(***************************************************************************)
(* combinedData (lines 603-618).                                           *)
(***************************************************************************)
\* (corporateYield - treasuryYield) * 100, in basis points
SpreadOf(corporateYield, treasuryYield) ==
    ((corporateYield - treasuryYield) * BasisPoints) \div YieldScale

RowTime(row) == ParseDate(row.date)
RowTimes(rows) == [i \in 1..Len(rows) |-> RowTime(rows[i])]

\* map.get(dateStr) !== undefined
HasValue(m, k) == MapHas(m, k)

\* mutant of RowOf: the spread is guarded by truthiness (corporateYield &&
\* treasuryYield), which drops the spread of a row whose Treasury yield is 0
RowOfTruthySpread(date, treasuryYieldMap, corporateYieldMap) ==
    LET dateStr == IsoDate(date)
        hasT == HasValue(treasuryYieldMap, dateStr)
        hasC == HasValue(corporateYieldMap, dateStr)
    IN  [date |-> dateStr,
         formattedDate |-> FormatDate(ParseDate(dateStr)),
         treasury_yield |-> IF hasT THEN treasuryYieldMap[dateStr] ELSE Null,
         corporate_yield |-> IF hasC THEN corporateYieldMap[dateStr] ELSE Null,
         spread_yield |-> IF /\ hasC /\ corporateYieldMap[dateStr] # 0
                             /\ hasT /\ treasuryYieldMap[dateStr] # 0
                          THEN SpreadOf(corporateYieldMap[dateStr],
                                        treasuryYieldMap[dateStr])
                          ELSE Null]

\* the row of one business day (the callback of businessDays.map)
RowOf(date, treasuryYieldMap, corporateYieldMap) ==
    LET dateStr == IsoDate(date)
        hasT == HasValue(treasuryYieldMap, dateStr)
        hasC == HasValue(corporateYieldMap, dateStr)
    IN  [date |-> dateStr,
         formattedDate |-> FormatDate(ParseDate(dateStr)),
         treasury_yield |-> IF hasT THEN treasuryYieldMap[dateStr] ELSE Null,
         corporate_yield |-> IF hasC THEN corporateYieldMap[dateStr] ELSE Null,
         spread_yield |-> IF hasC /\ hasT
                          THEN SpreadOf(corporateYieldMap[dateStr],
                                        treasuryYieldMap[dateStr])
                          ELSE Null]

\* mutant of CombinedData: rows without any value are left out
CombinedDataDropEmpty(businessDays, treasuryYieldMap, corporateYieldMap) ==
    LET rows == [i \in 1..Len(businessDays) |->
                    RowOf(businessDays[i], treasuryYieldMap, corporateYieldMap)]
        NotEmpty(row) == row.treasury_yield # Null \/ row.corporate_yield # Null
        kept == SelectSeq(rows, NotEmpty)
    IN  StableSort(kept, RowTimes(kept))

\* businessDays.map(...).sort(by date)
CombinedData(businessDays, treasuryYieldMap, corporateYieldMap) ==
    LET rows == [i \in 1..Len(businessDays) |->
                    RowOf(businessDays[i], treasuryYieldMap, corporateYieldMap)]
    IN  StableSort(rows, RowTimes(rows))

(***************************************************************************)
(* The headline values, latestData (lines 445-595).                        *)
(***************************************************************************)
\* xs.filter(d => date >= selectedStart && date <= selectedEnd)
InRange(xs, selStart, selEnd) ==
    LET Within(d) == /\ DateGE(PointTime(d), selStart)
                     /\ DateLE(PointTime(d), selEnd)
    IN  SelectSeq(xs, Within)

\* no observation: the null of latestTreasury / latestCorporate
NoPoint == [date |-> EmptyStr, yield |-> Null, source |-> "none"]

\* xs.reduce((latest, current) => current.date > latest.date ? current : latest)
LatestPoint(xs) ==
    LET f[i \in 1..Len(xs)] ==
            IF i = 1 THEN xs[1]
            ELSE IF DateGT(PointTime(xs[i]), PointTime(f[i - 1]))
                 THEN xs[i] ELSE f[i - 1]
    IN  IF Len(xs) = 0 THEN NoPoint ELSE f[Len(xs)]

\* latest?.yield ?? null
YieldForDisplay(latest) == IF latest = NoPoint THEN Null ELSE latest.yield

\* mutant of HeadlineSpread: a spread only for yields of one and the same date
HeadlineSpreadSameDate(latestTreasury, latestCorporate) ==
    IF /\ YieldForDisplay(latestTreasury) # Null
       /\ YieldForDisplay(latestCorporate) # Null
       /\ latestTreasury.date = latestCorporate.date
    THEN SpreadOf(YieldForDisplay(latestCorporate), YieldForDisplay(latestTreasury))
    ELSE Null

\* spreadYield (lines 507-510)
HeadlineSpread(latestTreasury, latestCorporate) ==
    IF /\ YieldForDisplay(latestTreasury) # Null
       /\ YieldForDisplay(latestCorporate) # Null
    THEN SpreadOf(YieldForDisplay(latestCorporate), YieldForDisplay(latestTreasury))
    ELSE Null

\* the date string of a range bound: its ISO day, or today when invalid
RangeDateStr(t) == IF ~IsInvalid(t) THEN IsoDate(t) ELSE IsoDate(Now)

\* the most recent in-range date that both series have, EmptyStr for null
LatestDateWithBoth(treasuryInRange, corporateInRange) ==
    LET both == {treasuryInRange[i].date : i \in
                    {j \in 1..Len(treasuryInRange) :
                        \E k \in 1..Len(corporateInRange) :
                            corporateInRange[k].date = treasuryInRange[j].date}}
    IN  IF both = {} THEN EmptyStr ELSE SetMax(both)

\* d capped at the range end: new Date(d) > selectedEnd ? rangeEndDateStr : d
CappedAtEnd(d, selEnd) ==
    IF DateGT(ParseDate(d), selEnd) THEN RangeDateStr(selEnd) ELSE d

\* latestDate (lines 515-532)
LatestDate(latestTreasury, latestCorporate, latestDateWithBoth, selEnd) ==
    IF latestTreasury # NoPoint /\ latestCorporate # NoPoint
    THEN CappedAtEnd(IF DateGT(PointTime(latestTreasury), PointTime(latestCorporate))
                     THEN latestTreasury.date ELSE latestCorporate.date, selEnd)
    ELSE IF latestTreasury # NoPoint THEN CappedAtEnd(latestTreasury.date, selEnd)
    ELSE IF latestCorporate # NoPoint THEN CappedAtEnd(latestCorporate.date, selEnd)
    ELSE IF latestDateWithBoth # EmptyStr THEN CappedAtEnd(latestDateWithBoth, selEnd)
    ELSE RangeDateStr(selEnd)

\* mutant of DisplayDate: a series without a point shows today's date
DisplayDateToday(latest, selStart, selEnd) ==
    IF latest # NoPoint /\ latest.date # EmptyStr
    THEN IF DateLT(PointTime(latest), selStart) THEN RangeDateStr(selStart)
         ELSE IF DateGT(PointTime(latest), selEnd) THEN RangeDateStr(selEnd)
         ELSE latest.date
    ELSE IsoDate(Now)

\* treasuryDisplayDate / corporateDisplayDate (lines 538-570)
DisplayDate(latest, selStart, selEnd) ==
    IF latest # NoPoint /\ latest.date # EmptyStr
    THEN IF DateLT(PointTime(latest), selStart) THEN RangeDateStr(selStart)
         ELSE IF DateGT(PointTime(latest), selEnd) THEN RangeDateStr(selEnd)
         ELSE latest.date
    ELSE RangeDateStr(selEnd)

\* spreadDisplayDate (lines 573-584): both display dates are non-empty
\* strings, so the first branch is the one taken
SpreadDisplayDate(treasuryDisplayDate, corporateDisplayDate) ==
    IF DateGT(ParseDate(treasuryDisplayDate), ParseDate(corporateDisplayDate))
    THEN treasuryDisplayDate
    ELSE corporateDisplayDate

\* latestData before anything is computed
NoLatestData ==
    [date |-> EmptyStr,
     treasury_yield |-> Null, treasury_date |-> EmptyStr,
     corporate_yield |-> Null, corporate_date |-> EmptyStr,
     spread_yield |-> Null, spread_date |-> EmptyStr]

\* latestData (lines 587-595)
LatestData(dat, selStart, selEnd) ==
    LET treasuryDataInRange == InRange(TreasuryData(dat), selStart, selEnd)
        corporateDataInRange == InRange(CorporateData(dat), selStart, selEnd)
        latestTreasury == LatestPoint(treasuryDataInRange)
        latestCorporate == LatestPoint(corporateDataInRange)
        treasuryDisplayDate == DisplayDate(latestTreasury, selStart, selEnd)
        corporateDisplayDate == DisplayDate(latestCorporate, selStart, selEnd)
    IN  [date |-> LatestDate(latestTreasury, latestCorporate,
                             LatestDateWithBoth(treasuryDataInRange,
                                                corporateDataInRange), selEnd),
         treasury_yield |-> YieldForDisplay(latestTreasury),
         treasury_date |-> treasuryDisplayDate,
         corporate_yield |-> YieldForDisplay(latestCorporate),
         corporate_date |-> corporateDisplayDate,
         spread_yield |-> HeadlineSpread(latestTreasury, latestCorporate),
         spread_date |-> SpreadDisplayDate(treasuryDisplayDate, corporateDisplayDate)]

(***************************************************************************)
(* One render of BondChart: what it computes and what it returns.          *)
(***************************************************************************)
NoView ==
    [screen |-> "none", selectedStart |-> NaN, selectedEnd |-> NaN,
     businessDays |-> <<>>, combinedData |-> <<>>, latestData |-> NoLatestData]

\* mutant of Render: the early return tests the whole data, not the Treasury part
RenderReturnOnEmptyData(dat, ddf, sd, ed, client) ==
    IF Len(dat) = 0
    THEN [NoView EXCEPT !.screen = "No treasury data available for the selected range."]
    ELSE LET r == SelectedRange(dat, ddf, sd, ed)
             businessDays == GetBusinessDaysInRange(r.start, r.end)
             treasuryYieldMap == TreasuryYieldMap(dat, r.end, businessDays)
             corporateYieldMap == CorporateYieldMap(dat, r.end, businessDays)
         IN  [screen |-> IF Len(dat) = 0 THEN "No data available for chart"
                         ELSE IF ~client THEN "Loading chart..."
                         ELSE "chart",
              selectedStart |-> r.start,
              selectedEnd |-> r.end,
              businessDays |-> businessDays,
              combinedData |-> CombinedData(businessDays, treasuryYieldMap,
                                            corporateYieldMap),
              latestData |-> LatestData(dat, r.start, r.end)]

\* one render: the early return of line 156, then the body
Render(dat, ddf, sd, ed, client) ==
    IF Len(TreasuryData(dat)) = 0
    THEN [NoView EXCEPT !.screen = "No treasury data available for the selected range."]
    ELSE LET r == SelectedRange(dat, ddf, sd, ed)
             businessDays == GetBusinessDaysInRange(r.start, r.end)
             treasuryYieldMap == TreasuryYieldMap(dat, r.end, businessDays)
             corporateYieldMap == CorporateYieldMap(dat, r.end, businessDays)
         IN  [screen |-> IF Len(dat) = 0 THEN "No data available for chart"
                         ELSE IF ~client THEN "Loading chart..."
                         ELSE "chart",
              selectedStart |-> r.start,
              selectedEnd |-> r.end,
              businessDays |-> businessDays,
              combinedData |-> CombinedData(businessDays, treasuryYieldMap,
                                            corporateYieldMap),
              latestData |-> LatestData(dat, r.start, r.end)]

\* the render got past the early return of line 156
Rendered == phase \in {"effects", "idle"} /\ Len(TreasuryData(data)) > 0

\* the chart is on screen (past the isClient return of line 628)
ChartShown == Rendered /\ view.screen = "chart"

selectedStart == view.selectedStart
selectedEnd == view.selectedEnd
BusinessDays == view.businessDays
Rows == view.combinedData
latestData == view.latestData

(***************************************************************************)
(* Inputs.                                                                 *)
(***************************************************************************)
Obs(src, day, y) == [date |-> day, yield |-> y, source |-> src]

Days == 0..MaxDay

\* Scenario A of the specification (BondChart.test.tsx, mockData):
\* 2023-01-02 .. 2023-01-04 are days 3 .. 5
ScenarioA ==
    << Obs("Treasury", 3, 35), Obs("Treasury", 4, 36), Obs("Treasury", 5, 37),
       Obs("Corporate", 3, 45), Obs("Corporate", 5, 47) >>

\* a Friday and the Tuesday after it: the weekend and the Monday are gaps
WeekendGapData ==
    << Obs("Treasury", 0, 35), Obs("Corporate", 0, 45), Obs("Treasury", 4, 36) >>

\* null yields, as in the test 'should display N/A when yield values are
\* null', followed by a Saturday observation
NullLeadData ==
    << Obs("Treasury", 0, Null), Obs("Corporate", 0, Null), Obs("Treasury", 1, 36) >>

\* Scenario C of the specification (the test 'should filter out zero or
\* negative corporate yields'): a Corporate yield of -1 on 2023-01-02
ScenarioC ==
    << Obs("Treasury", 3, 35), Obs("Treasury", 4, 36), Obs("Treasury", 5, 37),
       Obs("Corporate", 3, 0 - 10), Obs("Corporate", 5, 47) >>

BaseData == {<<>>, ScenarioA, ScenarioC, WeekendGapData, NullLeadData}

\* observations added in front of or behind a base dataset
ExtraObs ==
    {Obs("Treasury", d, y) : d \in Days, y \in {Null, 0}}
        \cup {Obs("Corporate", d, y) : d \in Days, y \in {0, 46}}

SeqsUpTo(S, n) == UNION {[1..k -> S] : k \in 0..n}

\* a base dataset with at most MaxExtra observations put before or after it
DenseData ==
    {x.pre \o x.base \o x.post :
        x \in {y \in [pre : SeqsUpTo(ExtraObs, MaxExtra), base : BaseData,
                        post : SeqsUpTo(ExtraObs, MaxExtra)] :
                    Len(y.pre) + Len(y.post) <= MaxExtra}}

\* Treasury dates around the 7-day outlier threshold; BadStr does not parse
GapDays == {0, 1, 1 + OutlierGapDays, 2 + OutlierGapDays, 3 + 2 * OutlierGapDays}

GapData ==
    {[i \in 1..Len(ds) |-> Obs("Treasury", ds[i], 35 + ds[i])] :
        ds \in SeqsUpTo(GapDays \cup {BadStr}, MaxRangeObs)}

DataSets == DenseData \cup GapData

\* what the two date inputs can hold
UserStrings == {EmptyStr, BadStr} \cup Days

(***************************************************************************)
(* GET /api/bonds (src/app/api/bonds/route.ts): values and pure parts.     *)
(***************************************************************************)
\* searchParams.get('start') / get('end') of an absent parameter: null
NullStr == 0 - 3

\* !x of a date parameter
IsFalsyDate(x) == x \in {NullStr, EmptyStr}

\* Days of the proleptic Gregorian calendar, counted from 1970-01-01: the
\* day number of a date and the date of a day number, as the Date object
\* computes them (MakeDay, YearFromTime, MonthFromTime, DateFromTime).
DaysFromCivil(year, month, day) ==
    LET y == IF month <= 2 THEN year - 1 ELSE year
        era == y \div 400
        yoe == y - era * 400
        mp == IF month > 2 THEN month - 3 ELSE month + 9
        doy == ((153 * mp + 2) \div 5) + day - 1
        doe == yoe * 365 + (yoe \div 4) - (yoe \div 100) + doy
    IN  era * 146097 + doe - 719468

CivilFromDays(days) ==
    LET z == days + 719468
        era == z \div 146097
        doe == z - era * 146097
        yoe == (doe - (doe \div 1460) + (doe \div 36524) - (doe \div 146096)) \div 365
        doy == doe - (365 * yoe + (yoe \div 4) - (yoe \div 100))
        mp == (5 * doy + 2) \div 153
        d == doy - ((153 * mp + 2) \div 5) + 1
        m == IF mp < 10 THEN mp + 3 ELSE mp - 9
    IN  [year |-> yoe + era * 400 + (IF m <= 2 THEN 1 ELSE 0), month |-> m, day |-> d]

\* Date.UTC(year, monthIndex, day), in days: a year of 0..99 means 1900 +
\* year; a month index outside 0..11 and a day outside the month carry over
DateUTC(year, monthIndex, day) ==
    LET yr == IF year \in 0..99 THEN 1900 + year ELSE year
    IN  DaysFromCivil(yr + (monthIndex \div 12), (monthIndex % 12) + 1, 1) + day - 1

\* date.getUTCDate()
GetUTCDate(t) == CivilFromDays(t).day

\* date.toISOString().split('T')[0], as [year, month, day]
ToISODate(t) == CivilFromDays(t)

\* the result of split('-').map(Number) for a string that is not a date, and
\* the fetchStartDate that is never computed: toISOString() throws
NotADate == [year |-> 0, month |-> 0, day |-> 0]

\* fetchStartDate (lines 54-69) of a requested start [year, month, day]
FetchStartDate(requestedStartDate) ==
    LET rolls == requestedStartDate.month - 1 < 1
        prevMonth == IF rolls THEN 12 ELSE requestedStartDate.month - 1
        prevYear == IF rolls THEN requestedStartDate.year - 1 ELSE requestedStartDate.year
        lastDayOfPrevMonth == GetUTCDate(DateUTC(prevYear, prevMonth, 0))
        targetDay == IF requestedStartDate.day < lastDayOfPrevMonth
                     THEN requestedStartDate.day ELSE lastDayOfPrevMonth
    IN  ToISODate(DateUTC(prevYear, prevMonth - 1, targetDay))

\* day 0 of the date strings, 2022-12-30, as a day number of the Date object
EpochDay == DaysFromCivil(2022, 12, 30)

\* requestedStartDate.split('-').map(Number) of a date string
SplitDate(s) == IF s >= 0 THEN CivilFromDays(EpochDay + s) ELSE NotADate

\* startParam || new Date(Date.now() - 365 days).toISOString().split('T')[0],
\* split into numbers (lines 49, 54)
RequestedStartDate(startParam) ==
    IF IsFalsyDate(startParam)
    THEN ToISODate(EpochDay + ((Now - 365 * TicksPerDay) \div TicksPerDay))
    ELSE SplitDate(startParam)

\* endParam || new Date().toISOString().split('T')[0] (line 48)
EndDateOf(endParam) == IF IsFalsyDate(endParam) THEN IsoDate(Now) ELSE endParam

\* no observation_start in the URL
NoObservationStart == NotADate

\* an upstream request: what it asks for and the dates of its URL; the
\* range URLs (lines 77, 94) carry fetchStartDate and endDate, the latest
\* URLs (lines 132-133) today
RangeRequest(name, fetchStartDate, observationEnd) ==
    [name |-> name, observation_start |-> fetchStartDate,
     observation_end |-> observationEnd]

LatestRequest(name) ==
    [name |-> name, observation_start |-> NoObservationStart,
     observation_end |-> IsoDate(Now)]

\* the computation is not running
FetchStartIdle == [pc |-> "idle", requestedStartDate |-> NotADate, fetchStartDate |-> NotADate]

\* BondsPage is not mounted
PageOff == [pc |-> "off"]
NotANumber == 0 - 2000   \* the NaN of parseFloat
NoStatus == 0            \* error.response?.status of an error without response
NoTimestamp == NaN       \* a body without timestamp
NoParam == "<null>"      \* searchParams.get of an absent parameter: null
NoKey == "<undefined>"   \* process.env.FRED_API_KEY when it is not set

\* !x of a string-or-null value
IsFalsy(x) == x \in {NoParam, NoKey, ""}

\* parseFloat of the value strings FRED sends: "." marks a missing value
ParseFloat(v) ==
    CASE v = "." -> NotANumber
      [] v = "0" -> 0
      [] v = "3.5" -> 35
      [] v = "3.7" -> 37
      [] v = "4.5" -> 45
      [] v = "4.7" -> 47

\* parseFloat(item.value) || null
YieldOrNull(v) ==
    IF ParseFloat(v) = NotANumber \/ ParseFloat(v) = 0 THEN Null ELSE ParseFloat(v)

\* observations.map(item => ({date, yield, source})).filter(yield !== null)
RangeData(observations, source) ==
    LET points == [i \in 1..Len(observations) |->
                      [date |-> observations[i].date,
                       yield |-> YieldOrNull(observations[i].value),
                       source |-> source]]
        NotNull(d) == d.yield # Null
    IN  SelectSeq(points, NotNull)

\* the absolute-latest point of one series (lines 138-158, 160-180): null
\* when the request is rejected, has no or an empty observations list, or
\* its first value is not a number
AbsoluteLatest(reply, source) ==
    IF reply.kind # "ok" THEN NoPoint
    ELSE IF Len(reply.observations) = 0 THEN NoPoint
    ELSE IF ParseFloat(reply.observations[1].value) = NotANumber THEN NoPoint
    ELSE [date |-> reply.observations[1].date,
          yield |-> ParseFloat(reply.observations[1].value),
          source |-> source]

\* mutant of PushIfAbsent: the point is pushed without the exists check
PushAlways(chartData, absoluteLatest) ==
    IF absoluteLatest = NoPoint THEN chartData
    ELSE Append(chartData, absoluteLatest)

\* lines 186-193 / 198-205: push unless a point of that date and source exists
PushIfAbsent(chartData, absoluteLatest) ==
    IF absoluteLatest = NoPoint THEN chartData
    ELSE IF \E i \in 1..Len(chartData) :
                /\ chartData[i].date = absoluteLatest.date
                /\ chartData[i].source = absoluteLatest.source
         THEN chartData
         ELSE Append(chartData, absoluteLatest)

\* chartData (lines 183-211)
MergedChartData(fredData, corporateData, absoluteLatestTreasury, absoluteLatestCorporate) ==
    LET merged == PushIfAbsent(PushIfAbsent(fredData \o corporateData,
                                            absoluteLatestTreasury),
                               absoluteLatestCorporate)
    IN  StableSort(merged, PointTimes(merged))

\* mutant of LatestOrFallback: no fallback to the range data
LatestNoFallback(absoluteLatest, rangeData) == absoluteLatest

\* absoluteLatest || (rangeData.length > 0 ? rangeData[length - 1] : null)
LatestOrFallback(absoluteLatest, rangeData) ==
    IF absoluteLatest # NoPoint THEN absoluteLatest
    ELSE IF Len(rangeData) > 0 THEN rangeData[Len(rangeData)]
    ELSE NoPoint

\* no response yet
NoResponse ==
    [httpStatus |-> 0, status |-> "", error |-> "", errorType |-> "",
     upstreamStatus |-> NoStatus, timestamp |-> NoTimestamp,
     latestData |-> [treasury |-> NoPoint, corporate |-> NoPoint],
     chartData |-> <<>>]

\* the success response (lines 221-259)
SuccessResponse(fredData, corporateData, absoluteLatestTreasury, absoluteLatestCorporate) ==
    [NoResponse EXCEPT
        !.httpStatus = 200,
        !.status = "success",
        !.latestData = [treasury |-> LatestOrFallback(absoluteLatestTreasury, fredData),
                        corporate |-> LatestOrFallback(absoluteLatestCorporate,
                                                       corporateData)],
        !.chartData = MergedChartData(fredData, corporateData,
                                      absoluteLatestTreasury, absoluteLatestCorporate)]

\* the configuration error (lines 21-29)
ConfigurationErrorResponse ==
    [NoResponse EXCEPT !.httpStatus = 500, !.status = "error",
                       !.errorType = "ConfigurationError", !.timestamp = Now]

\* the missing-parameter error (lines 35-39)
MissingParameterResponse ==
    [NoResponse EXCEPT !.httpStatus = 400,
                       !.error = "Both series and treasury parameters are required"]

\* mutant of ErrorResponse: the upstream status is passed through
ErrorResponsePassThrough(reply) ==
    IF reply.kind = "axiosError"
    THEN [NoResponse EXCEPT
            !.httpStatus = IF reply.httpStatus = NoStatus THEN 500 ELSE reply.httpStatus,
            !.status = "error", !.errorType = "AxiosError",
            !.upstreamStatus = reply.httpStatus, !.timestamp = Now]
    ELSE [NoResponse EXCEPT !.httpStatus = 500, !.status = "error",
                            !.errorType = "Error", !.timestamp = Now]

\* the catch block (lines 261-323) for a rejected range request or a range
\* response without observations
ErrorResponse(reply) ==
    IF reply.kind = "axiosError"
    THEN [NoResponse EXCEPT
            !.httpStatus = IF reply.httpStatus = 400 THEN 400 ELSE 500,
            !.status = "error", !.errorType = "AxiosError",
            !.upstreamStatus = reply.httpStatus, !.timestamp = Now]
    ELSE [NoResponse EXCEPT !.httpStatus = 500, !.status = "error",
                            !.errorType = "Error", !.timestamp = Now]

\* the catch block for the RangeError of toISOString() on an Invalid Date
\* (line 69): not an axios error, errorType is error.name
RangeErrorResponse ==
    [NoResponse EXCEPT !.httpStatus = 500, !.status = "error",
                       !.errorType = "RangeError", !.timestamp = Now]

\* mutant of Preconditions: the parameters are checked before the key
PreconditionsParamsFirst(key, series, treasury) ==
    IF IsFalsy(series) \/ IsFalsy(treasury) THEN "parameters"
    ELSE IF IsFalsy(key) THEN "configuration"
    ELSE "ok"

\* the checks of lines 21 and 35, in their order
Preconditions(key, series, treasury) ==
    IF IsFalsy(key) THEN "configuration"
    ELSE IF IsFalsy(series) \/ IsFalsy(treasury) THEN "parameters"
    ELSE "ok"

\* the handler is not running
RouteIdle ==
    [pc |-> "idle", key |-> NoKey, series |-> NoParam, treasury |-> NoParam,
     start |-> NullStr, end |-> NullStr,
     fetchStartDate |-> NotADate, endDate |-> EmptyStr,
     requests |-> <<>>, replies |-> <<>>, fredData |-> <<>>, corporateData |-> <<>>,
     absoluteLatestTreasury |-> NoPoint, response |-> NoResponse]

(***************************************************************************)
(* The component.                                                          *)
(***************************************************************************)
Init ==
    /\ data \in DataSets
    /\ disableDateFilter \in BOOLEAN
    /\ startDate = EmptyStr
    /\ endDate = EmptyStr
    /\ isClient = FALSE
    /\ error = "null"
    /\ view = Render(data, disableDateFilter, startDate, endDate, isClient)
    /\ phase = "effects"
    /\ cal = CalIdle
    /\ route = RouteIdle
    /\ page = PageOff
    /\ fetchStart = FetchStartIdle

\* the validation effect (lines 144-153): the error it sets
ValidationError(sd, ed) ==
    IF DateGT(ParseDate(sd), ParseDate(ed))
    THEN "Start date must be before end date."
    ELSE IF DateLT(ParseDate(sd), MemoDate(sd)) \/ DateGT(ParseDate(ed), MemoDate(ed))
         THEN "Dates must be between minDate and maxDate."
         ELSE "null"

\* the dates the Treasury effect (lines 129-137) would set: formatDate of
\* the minimum / maximum time value; Math.min / Math.max give NaN as soon
\* as one date is invalid
EffectDates(dat, sd, ed) ==
    LET times == PointTimes(TreasuryData(dat))
        all == {times[i] : i \in 1..Len(times)}
    IN  IF Len(times) = 0
        THEN [start |-> sd, end |-> ed, throws |-> FALSE]
        ELSE IF NaN \in all
             THEN [start |-> sd, end |-> ed, throws |-> TRUE]
             ELSE [start |-> FormatDate(SetMin(all)),
                   end |-> FormatDate(SetMax(all)),
                   throws |-> FALSE]

\* The passive effects of the last render, flushed together: the Treasury
\* effect (its dependency treasuryData is a fresh array on every render, so
\* it runs after every render), setIsClient(true), and the validation
\* effect.  new Date(NaN).toISOString() throws a RangeError and React
\* unmounts the tree.  A state change schedules another render.
FlushEffects ==
    /\ phase = "effects"
    /\ LET eff == EffectDates(data, startDate, endDate)
           err == IF disableDateFilter THEN error
                  ELSE ValidationError(startDate, endDate)
       IN  IF eff.throws
           THEN /\ phase' = "crashed"
                /\ view' = NoView
                /\ UNCHANGED <<startDate, endDate, isClient, error>>
           ELSE /\ startDate' = eff.start
                /\ endDate' = eff.end
                /\ isClient' = TRUE
                /\ error' = err
                /\ view' = Render(data, disableDateFilter, eff.start, eff.end, TRUE)
                /\ phase' = IF <<eff.start, eff.end, TRUE, err>>
                                 = <<startDate, endDate, isClient, error>>
                             THEN "idle" ELSE "effects"
    /\ UNCHANGED <<data, disableDateFilter, cal, route, page, fetchStart>>

\* the date inputs are on screen (lines 636-666)
InputsShown == Rendered /\ isClient /\ ~disableDateFilter

\* onChange of the Start Date input: setStartDate(e.target.value)
UserSetStartDate(s) ==
    /\ phase = "idle"
    /\ InputsShown
    /\ s # startDate
    /\ startDate' = s
    /\ view' = Render(data, disableDateFilter, s, endDate, isClient)
    /\ phase' = "effects"
    /\ UNCHANGED <<data, disableDateFilter, endDate, isClient, error, cal, route, page, fetchStart>>

\* onChange of the End Date input: setEndDate(e.target.value)
UserSetEndDate(e) ==
    /\ phase = "idle"
    /\ InputsShown
    /\ e # endDate
    /\ endDate' = e
    /\ view' = Render(data, disableDateFilter, startDate, e, isClient)
    /\ phase' = "effects"
    /\ UNCHANGED <<data, disableDateFilter, startDate, isClient, error, cal, route, page, fetchStart>>

Next ==
    \/ FlushEffects
    \/ \E s \in UserStrings : UserSetStartDate(s)
    \/ \E e \in UserStrings : UserSetEndDate(e)

Spec == Init /\ [][Next]_vars

(***************************************************************************)
(* getBusinessDaysInRange on its own, one loop iteration per step.         *)
(***************************************************************************)
CalDates == {NaN} \cup {ParseDate(d) : d \in 0..MaxCalDay}

CalendarInit ==
    /\ data = <<>>
    /\ disableDateFilter = FALSE
    /\ startDate = EmptyStr
    /\ endDate = EmptyStr
    /\ isClient = FALSE
    /\ error = "null"
    /\ view = NoView
    /\ phase = "off"
    /\ cal = CalIdle
    /\ route = RouteIdle
    /\ page = PageOff
    /\ fetchStart = FetchStartIdle

CalCall(s, e) ==
    /\ cal.pc = "idle"
    /\ cal' = CalStart(s, e)
    /\ UNCHANGED <<data, disableDateFilter, startDate, endDate, isClient, error, view, phase,
                   route, page, fetchStart>>

CalLoop ==
    /\ cal.pc = "loop"
    /\ cal' = CalStep(cal)
    /\ UNCHANGED <<data, disableDateFilter, startDate, endDate, isClient, error, view, phase,
                   route, page, fetchStart>>

CalendarNext ==
    \/ \E s \in CalDates, e \in CalDates : CalCall(s, e)
    \/ CalLoop

CalendarSpec == CalendarInit /\ [][CalendarNext]_vars /\ WF_vars(CalLoop)

(***************************************************************************)
(* GET /api/bonds, one step per await: the call up to the first upstream   *)
(* request, then one step per upstream reply.                              *)
(***************************************************************************)
KeyValues == {NoKey, "", "test-api-key"}
SeriesValues == {NoParam, "", "AAA"}
TreasuryValues == {NoParam, "", "DGS10"}

\* the start and end parameters: absent, 2023-01-03 .. 2023-01-03, and a
\* start that is not a date
DateParams == {<<NullStr, NullStr>>, <<4, 4>>, <<BadStr, NullStr>>}

RouteDays == {3, 4}      \* dates of the range observations
LatestDays == {4, 5}     \* dates of the absolute-latest observations

OkReply(observations) ==
    [kind |-> "ok", httpStatus |-> 200, observations |-> observations]

\* a rejected request, or a response whose data has no observations field
FailedReplies ==
    {[kind |-> "axiosError", httpStatus |-> h, observations |-> <<>>] :
        h \in {403, 400, 500, NoStatus}}
    \cup {[kind |-> k, httpStatus |-> NoStatus, observations |-> <<>>] :
            k \in {"error", "noObservations"}}

RangeReplies(values) ==
    {OkReply(obs) : obs \in SeqsUpTo([date : RouteDays, value : values], MaxRouteObs)}
        \cup FailedReplies

TreasuryRangeReplies == RangeReplies({".", "3.5"})
CorporateRangeReplies == RangeReplies({"0", "4.5"})

LatestReplies(values) ==
    {OkReply(obs) : obs \in SeqsUpTo([date : LatestDays, value : values], 1)}
        \cup {r \in FailedReplies : r.kind = "noObservations" \/ r.httpStatus = 500}

TreasuryLatestReplies == LatestReplies({".", "0", "3.7"})
CorporateLatestReplies == LatestReplies({".", "0", "4.7"})

Received(reply) == [route EXCEPT !.replies = Append(@, reply)]

\* the upstream answers what the URL asks for: observations dated from
\* observation_start (when given) to observation_end
AnswersRequest(reply, request) ==
    \A i \in 1..Len(reply.observations) :
        /\ reply.observations[i].date <= request.observation_end
        /\ request.observation_start # NoObservationStart =>
              DaysFromCivil(request.observation_start.year,
                            request.observation_start.month,
                            request.observation_start.day)
                  <= EpochDay + reply.observations[i].date

LastRequest == route.requests[Len(route.requests)]

\* GET up to its first await: the two checks, the date range, then the
\* Treasury range request
RouteCalled(key, series, treasury, start, end) ==
    LET called == [RouteIdle EXCEPT !.key = key, !.series = series,
                                    !.treasury = treasury,
                                    !.start = start, !.end = end]
        pre == Preconditions(key, series, treasury)
        requestedStartDate == RequestedStartDate(start)
        fetchStartDate == FetchStartDate(requestedStartDate)
    IN  IF pre = "configuration"
        THEN [called EXCEPT !.pc = "done", !.response = ConfigurationErrorResponse]
        ELSE IF pre = "parameters"
        THEN [called EXCEPT !.pc = "done", !.response = MissingParameterResponse]
        ELSE IF requestedStartDate = NotADate
        THEN [called EXCEPT !.pc = "done", !.response = RangeErrorResponse]
        ELSE [called EXCEPT
                 !.pc = "rangeTreasury",
                 !.fetchStartDate = fetchStartDate,
                 !.endDate = EndDateOf(end),
                 !.requests = <<RangeRequest("rangeTreasury", fetchStartDate,
                                             EndDateOf(end))>>]

RouteGet(key, series, treasury, start, end) ==
    /\ route.pc = "idle"
    /\ route' = RouteCalled(key, series, treasury, start, end)
    /\ UNCHANGED <<data, disableDateFilter, startDate, endDate, isClient, error, view, phase,
                   cal, page, fetchStart>>

\* the Treasury range reply (lines 80-91), then the Corporate range request
RouteTreasuryReply(reply) ==
    /\ route.pc = "rangeTreasury"
    /\ AnswersRequest(reply, LastRequest)
    /\ route' =
          IF reply.kind = "ok"
          THEN [Received(reply) EXCEPT
                   !.fredData = RangeData(reply.observations, "Treasury"),
                   !.requests = Append(@, RangeRequest("rangeCorporate",
                                                       route.fetchStartDate,
                                                       route.endDate)),
                   !.pc = "rangeCorporate"]
          ELSE [Received(reply) EXCEPT !.pc = "done", !.response = ErrorResponse(reply)]
    /\ UNCHANGED <<data, disableDateFilter, startDate, endDate, isClient, error, view, phase,
                   cal, page, fetchStart>>

\* the Corporate range reply (lines 97-118), then the latest Treasury request
RouteCorporateReply(reply) ==
    /\ route.pc = "rangeCorporate"
    /\ AnswersRequest(reply, LastRequest)
    /\ route' =
          IF reply.kind = "ok"
          THEN [Received(reply) EXCEPT
                   !.corporateData = RangeData(reply.observations, "Corporate"),
                   !.requests = Append(@, LatestRequest("latestTreasury")),
                   !.pc = "latestTreasury"]
          ELSE [Received(reply) EXCEPT !.pc = "done", !.response = ErrorResponse(reply)]
    /\ UNCHANGED <<data, disableDateFilter, startDate, endDate, isClient, error, view, phase,
                   cal, page, fetchStart>>

\* the latest Treasury reply (lines 138-158), then the latest Corporate request
RouteLatestTreasuryReply(reply) ==
    /\ route.pc = "latestTreasury"
    /\ AnswersRequest(reply, LastRequest)
    /\ route' = [Received(reply) EXCEPT
                    !.absoluteLatestTreasury = AbsoluteLatest(reply, "Treasury"),
                    !.requests = Append(@, LatestRequest("latestCorporate")),
                    !.pc = "latestCorporate"]
    /\ UNCHANGED <<data, disableDateFilter, startDate, endDate, isClient, error, view, phase,
                   cal, page, fetchStart>>

\* the latest Corporate reply (lines 160-180), the merge and the response
RouteLatestCorporateReply(reply) ==
    /\ route.pc = "latestCorporate"
    /\ AnswersRequest(reply, LastRequest)
    /\ route' = [Received(reply) EXCEPT
                    !.pc = "done",
                    !.response = SuccessResponse(route.fredData, route.corporateData,
                                                 route.absoluteLatestTreasury,
                                                 AbsoluteLatest(reply, "Corporate"))]
    /\ UNCHANGED <<data, disableDateFilter, startDate, endDate, isClient, error, view, phase,
                   cal, page, fetchStart>>

RouteInit ==
    /\ data = <<>>
    /\ disableDateFilter = FALSE
    /\ startDate = EmptyStr
    /\ endDate = EmptyStr
    /\ isClient = FALSE
    /\ error = "null"
    /\ view = NoView
    /\ phase = "off"
    /\ cal = CalIdle
    /\ route = RouteIdle
    /\ page = PageOff
    /\ fetchStart = FetchStartIdle

RouteNext ==
    \/ \E k \in KeyValues, s \in SeriesValues, t \in TreasuryValues, d \in DateParams :
          RouteGet(k, s, t, d[1], d[2])
    \/ \E r \in TreasuryRangeReplies : RouteTreasuryReply(r)
    \/ \E r \in CorporateRangeReplies : RouteCorporateReply(r)
    \/ \E r \in TreasuryLatestReplies : RouteLatestTreasuryReply(r)
    \/ \E r \in CorporateLatestReplies : RouteLatestCorporateReply(r)

RouteSpec == RouteInit /\ [][RouteNext]_vars

(***************************************************************************)
(* The fetchStartDate computation of GET /api/bonds on its own: the        *)
(* requested start is any date of the years StartYears.                    *)
(***************************************************************************)
StartYears == {0, 99, 100, 101, 1600, 1900, 2000, 2023, 2024}

IsLeapYear(y) == (y % 4 = 0 /\ y % 100 # 0) \/ y % 400 = 0

DaysInMonth(y, m) ==
    IF m = 2 THEN (IF IsLeapYear(y) THEN 29 ELSE 28)
    ELSE IF m \in {4, 6, 9, 11} THEN 30 ELSE 31

IsValidDate(date) ==
    /\ date.month \in 1..12
    /\ date.day \in 1..DaysInMonth(date.year, date.month)

ValidStarts ==
    {date \in [year : StartYears, month : 1..12, day : 1..31] : IsValidDate(date)}

FetchStartInit ==
    /\ data = <<>>
    /\ disableDateFilter = FALSE
    /\ startDate = EmptyStr
    /\ endDate = EmptyStr
    /\ isClient = FALSE
    /\ error = "null"
    /\ view = NoView
    /\ phase = "off"
    /\ cal = CalIdle
    /\ route = RouteIdle
    /\ page = PageOff
    /\ fetchStart \in {[FetchStartIdle EXCEPT !.pc = "called", !.requestedStartDate = r] :
                          r \in ValidStarts}

\* lines 54-69
FetchStartCompute ==
    /\ fetchStart.pc = "called"
    /\ fetchStart' = [fetchStart EXCEPT
                         !.pc = "done",
                         !.fetchStartDate = FetchStartDate(fetchStart.requestedStartDate)]
    /\ UNCHANGED <<data, disableDateFilter, startDate, endDate, isClient, error, view, phase,
                   cal, route, page>>

FetchStartNext == FetchStartCompute

FetchStartSpec == FetchStartInit /\ [][FetchStartNext]_vars

(***************************************************************************)
(* BondsPage (src/unnamed/part_004): the useState cells, the two effects,  *)
(* the debounce timer and the fetches in flight.  A date string of the     *)
(* page is [year, month, day] when it has the form dddd-dd-dd, NoDateText  *)
(* otherwise.  Time passes in ticks of 500 ms / DebounceTicks; a render    *)
(* and the flush of its effects take no time.  The record of the page      *)
(* also keeps what the properties speak of: lastIssued and issued (the     *)
(* last fetch issued and their number), fresh (a fetch with the current    *)
(* values was issued since the last change), quiet (ticks since the last   *)
(* change), changes (changes made by the user) and recovered (dateError    *)
(* went back to null since the last change).                               *)
(***************************************************************************)
DebounceTicks == 2       \* the 500 ms of setTimeout, in ticks of 250 ms
MaxInFlight == 2         \* fetches awaiting their response at one time
MaxChanges == 2          \* changes the user makes to the selects and the inputs

NaNDay == 0 - 100000000  \* getTime() of an Invalid Date, in days
NoDateText == [year |-> 0 - 1, month |-> 0, day |-> 0]

\* /^\d{4}-\d{2}-\d{2}$/.test(dateStr)
MatchesPattern(dateStr) ==
    /\ dateStr.year \in 0..9999
    /\ dateStr.month \in 0..99
    /\ dateStr.day \in 0..99

\* new Date(dateStr).getTime() in days: a date-only ISO string is a UTC
\* midnight; month 1..12 and day 1..31 are accepted, a day past the end of
\* the month carries over (V8)
NewDate(dateStr) ==
    IF MatchesPattern(dateStr) /\ dateStr.month \in 1..12 /\ dateStr.day \in 1..31
    THEN DaysFromCivil(dateStr.year, dateStr.month, 1) + dateStr.day - 1
    ELSE NaNDay

\* isValidISODate (lines 76-80)
isValidISODate(dateStr) ==
    /\ MatchesPattern(dateStr)
    /\ NewDate(dateStr) # NaNDay
    /\ dateStr = ToISODate(NewDate(dateStr))

\* a < b of two strings dddd-dd-dd
StringLT(a, b) ==
    \/ a.year < b.year
    \/ a.year = b.year /\ a.month < b.month
    \/ a.year = b.year /\ a.month = b.month /\ a.day < b.day

\* lines 110-116
defaultEnd == ToISODate(EpochDay + IsoDate(Now))
defaultStart ==
    ToISODate(DaysFromCivil(defaultEnd.year - 1, defaultEnd.month, 1) + defaultEnd.day - 1)
minAllowedDate == [year |-> 1600, month |-> 1, day |-> 1]
maxAllowedDate == defaultEnd

\* mutant of DateErrorOf: start and end are not compared
DateErrorOfNoOrder(start, end) ==
    IF ~isValidISODate(start)
    THEN "Start date is invalid. Please enter a valid date (YYYY-MM-DD)."
    ELSE IF ~isValidISODate(end)
    THEN "End date is invalid. Please enter a valid date (YYYY-MM-DD)."
    ELSE IF StringLT(start, minAllowedDate) \/ StringLT(maxAllowedDate, start)
    THEN "Start date must be between minAllowedDate and maxAllowedDate."
    ELSE IF StringLT(end, minAllowedDate) \/ StringLT(maxAllowedDate, end)
    THEN "End date must be between minAllowedDate and maxAllowedDate."
    ELSE "null"

\* the validation effect (lines 122-136): the dateError it sets
DateErrorOf(start, end) ==
    IF ~isValidISODate(start)
    THEN "Start date is invalid. Please enter a valid date (YYYY-MM-DD)."
    ELSE IF ~isValidISODate(end)
    THEN "End date is invalid. Please enter a valid date (YYYY-MM-DD)."
    ELSE IF StringLT(start, minAllowedDate) \/ StringLT(maxAllowedDate, start)
    THEN "Start date must be between minAllowedDate and maxAllowedDate."
    ELSE IF StringLT(end, minAllowedDate) \/ StringLT(maxAllowedDate, end)
    THEN "End date must be between minAllowedDate and maxAllowedDate."
    ELSE IF NewDate(start) > NewDate(end)
    THEN "Start date must be before end date."
    ELSE "null"

\* queryParams (lines 146-151)
QueryParams(p) ==
    [series |-> p.selectedCorporateSeries, treasury |-> p.selectedTreasurySeries,
     start |-> p.startDate, end |-> p.endDate]

NoRequest == [series |-> "", treasury |-> "", start |-> NoDateText, end |-> NoDateText]
NoTimer == [queryParams |-> NoRequest, remaining |-> 0 - 1]

\* mutant of FetchDeps: dateError is not a dependency
FetchDepsNoDateError(p) ==
    <<p.selectedCorporateSeries, p.selectedTreasurySeries, p.startDate, p.endDate>>

\* the dependencies of the fetch effect (line 167)
FetchDeps(p) ==
    <<p.selectedCorporateSeries, p.selectedTreasurySeries, p.startDate, p.endDate,
      p.dateError>>

\* the dependencies of the validation effect (line 136)
ValidationDeps(p) == <<p.startDate, p.endDate>>

NoDeps == <<>>

\* mutant of ClearTimeout: the cleanup does not clear the timer
ClearTimeoutNoOp(timers, handler) == timers

\* clearTimeout(handler) (line 166)
ClearTimeout(timers, handler) == timers \ {handler}

\* the first render (lines 83-119); its effects are pending
PageMounted ==
    [pc |-> "mounted",
     selectedCorporateSeries |-> "AAA", selectedTreasurySeries |-> "DGS10",
     bondData |-> NoRequest, isLoading |-> TRUE, error |-> "null",
     startDate |-> defaultStart, endDate |-> defaultEnd, dateError |-> "null",
     phase |-> "effects",
     validationDeps |-> NoDeps, fetchDeps |-> NoDeps,
     handler |-> NoTimer, timers |-> {},
     fetches |-> {},
     lastIssued |-> NoRequest, issued |-> 0, fresh |-> FALSE, quiet |-> 0,
     changes |-> 0, recovered |-> FALSE]

\* what the selects and the date inputs can be set to: a text that is not
\* a date, 2022-02-30, the day before 1600-01-01, 2023-01-04, tomorrow,
\* 2023-01-03
PageCorporateSeries == {"AAA", "DBAA"}
PageTreasurySeries == {"DGS10", "DGS2"}
StartInputs ==
    {NoDateText, [year |-> 2022, month |-> 2, day |-> 30],
     [year |-> 1599, month |-> 12, day |-> 31], SplitDate(5)}
EndInputs == {NoDateText, ToISODate(EpochDay + IsoDate(Now) + 1), SplitDate(4)}

\* The passive effects of the last render, in their order: the validation
\* effect when startDate or endDate changed, then the fetch effect when one
\* of its dependencies changed: the cleanup of its previous run, then
\* `if (dateError) return` with the dateError of this render, else a new
\* timer with the values of this render.  setDateError with another value
\* schedules the next render.
PageFlushEffects ==
    /\ page.pc = "mounted"
    /\ page.phase = "effects"
    /\ LET runValidation == ValidationDeps(page) # page.validationDeps
           newError == IF runValidation
                       THEN DateErrorOf(page.startDate, page.endDate)
                       ELSE page.dateError
           runFetch == FetchDeps(page) # page.fetchDeps
           cleared == ClearTimeout(page.timers, page.handler)
           scheduled == [queryParams |-> QueryParams(page), remaining |-> DebounceTicks]
       IN  page' = [page EXCEPT
                       !.validationDeps = ValidationDeps(page),
                       !.fetchDeps = FetchDeps(page),
                       !.handler = IF ~runFetch THEN @
                                   ELSE IF page.dateError # "null" THEN NoTimer
                                   ELSE scheduled,
                       !.timers = IF ~runFetch THEN @
                                  ELSE IF page.dateError # "null" THEN cleared
                                  ELSE cleared \cup {scheduled},
                       !.dateError = newError,
                       !.quiet = IF newError # page.dateError THEN 0 ELSE @,
                       !.fresh = IF newError # page.dateError THEN FALSE ELSE @,
                       !.recovered = IF page.dateError # "null" /\ newError = "null"
                                     THEN TRUE ELSE @,
                       !.phase = IF newError # page.dateError THEN "effects" ELSE "idle"]
    /\ UNCHANGED <<data, disableDateFilter, startDate, endDate, isClient, error, view, phase,
                   cal, route, fetchStart>>

\* the selects and the inputs are on screen (lines 169-175), and React has
\* flushed the effects of the last render before it handles an event
PageInputsShown ==
    /\ page.pc = "mounted"
    /\ page.phase = "idle"
    /\ page.error = "null"
    /\ page.changes < MaxChanges

Changed(p) ==
    [p EXCEPT !.phase = "effects", !.quiet = 0, !.fresh = FALSE, !.changes = @ + 1,
              !.recovered = FALSE]

\* onChange of the Treasury select (line 224)
PageSelectTreasury(v) ==
    /\ PageInputsShown
    /\ v # page.selectedTreasurySeries
    /\ page' = Changed([page EXCEPT !.selectedTreasurySeries = v])
    /\ UNCHANGED <<data, disableDateFilter, startDate, endDate, isClient, error, view, phase,
                   cal, route, fetchStart>>

\* onChange of the Corporate select (line 242)
PageSelectCorporate(v) ==
    /\ PageInputsShown
    /\ v # page.selectedCorporateSeries
    /\ page' = Changed([page EXCEPT !.selectedCorporateSeries = v])
    /\ UNCHANGED <<data, disableDateFilter, startDate, endDate, isClient, error, view, phase,
                   cal, route, fetchStart>>

\* onChange of the Start Date input (line 264)
PageSetStartDate(v) ==
    /\ PageInputsShown
    /\ v # page.startDate
    /\ page' = Changed([page EXCEPT !.startDate = v])
    /\ UNCHANGED <<data, disableDateFilter, startDate, endDate, isClient, error, view, phase,
                   cal, route, fetchStart>>

\* onChange of the End Date input (line 276)
PageSetEndDate(v) ==
    /\ PageInputsShown
    /\ v # page.endDate
    /\ page' = Changed([page EXCEPT !.endDate = v])
    /\ UNCHANGED <<data, disableDateFilter, startDate, endDate, isClient, error, view, phase,
                   cal, route, fetchStart>>

\* one tick of time passes: no timer is due
PageTick ==
    /\ page.pc = "mounted"
    /\ page.phase = "idle"
    /\ \A t \in page.timers : t.remaining > 0
    /\ page.timers # {} \/ page.quiet < DebounceTicks
    /\ page' = [page EXCEPT
                   !.timers = {[t EXCEPT !.remaining = @ - 1] : t \in page.timers},
                   !.handler = IF @ \in page.timers THEN [@ EXCEPT !.remaining = @ - 1]
                               ELSE @,
                   !.quiet = IF @ < DebounceTicks THEN @ + 1 ELSE @]
    /\ UNCHANGED <<data, disableDateFilter, startDate, endDate, isClient, error, view, phase,
                   cal, route, fetchStart>>

\* a due timer fires: fetchData() up to `await fetch(...)` (lines 142-152)
TimerDue(t) ==
    /\ page.pc = "mounted"
    /\ page.phase = "idle"
    /\ t \in page.timers
    /\ t.remaining = 0
    /\ Cardinality(page.fetches \cup {t.queryParams}) <= MaxInFlight

Fetching(t) ==
    [page EXCEPT
        !.timers = @ \ {t},
        !.isLoading = TRUE,
        !.error = "null",
        !.fetches = @ \cup {t.queryParams},
        !.lastIssued = t.queryParams,
        !.issued = @ + 1,
        !.fresh = (t.queryParams = QueryParams(page))]

PageTimerFire(t) ==
    /\ TimerDue(t)
    /\ page' = Fetching(t)
    /\ UNCHANGED <<data, disableDateFilter, startDate, endDate, isClient, error, view, phase,
                   cal, route, fetchStart>>

FetchOutcomes == {"ok", "notOk", "rejected"}

\* the rest of fetchData() (lines 153-162) for one fetch in flight: the
\* response is ok, is not ok, or the fetch is rejected
Settled(queryParams, outcome) ==
    [page EXCEPT
        !.fetches = @ \ {queryParams},
        !.bondData = IF outcome = "ok" THEN queryParams ELSE @,
        !.error = IF outcome = "ok" THEN @
                  ELSE IF outcome = "notOk" THEN "Failed to fetch bond data"
                  ELSE "Network error",
        !.isLoading = FALSE]

PageFetchSettles(queryParams, outcome) ==
    /\ page.pc = "mounted"
    /\ page.phase = "idle"
    /\ queryParams \in page.fetches
    /\ page' = Settled(queryParams, outcome)
    /\ UNCHANGED <<data, disableDateFilter, startDate, endDate, isClient, error, view, phase,
                   cal, route, fetchStart>>

PageInit ==
    /\ data = <<>>
    /\ disableDateFilter = FALSE
    /\ startDate = EmptyStr
    /\ endDate = EmptyStr
    /\ isClient = FALSE
    /\ error = "null"
    /\ view = NoView
    /\ phase = "off"
    /\ cal = CalIdle
    /\ route = RouteIdle
    /\ fetchStart = FetchStartIdle
    /\ page = PageMounted

PageNext ==
    \/ PageFlushEffects
    \/ \E v \in PageTreasurySeries : PageSelectTreasury(v)
    \/ \E v \in PageCorporateSeries : PageSelectCorporate(v)
    \/ \E v \in StartInputs : PageSetStartDate(v)
    \/ \E v \in EndInputs : PageSetEndDate(v)
    \/ PageTick
    \/ \E t \in page.timers : PageTimerFire(t)
    \/ \E q \in page.fetches, o \in FetchOutcomes : PageFetchSettles(q, o)

PageSpec == PageInit /\ [][PageNext]_vars

\* the timer fires when it is due, renders and effects are carried out, and
\* every fetch settles
PageLiveSpec ==
    /\ PageSpec
    /\ WF_vars(PageFlushEffects)
    /\ WF_vars(PageTick)
    /\ WF_vars(\E t \in page.timers : PageTimerFire(t))
    /\ WF_vars(\E q \in page.fetches, o \in FetchOutcomes : PageFetchSettles(q, o))

(***************************************************************************)
(* End to end: BondsPage issues its fetch, GET /api/bonds answers it from  *)
(* the replies of FRED, the page hands chartData to BondChart with         *)
(* disableDateFilter.  The page starts at rest, the user having typed a    *)
(* start and an end, with the debounce timer due.                          *)
(***************************************************************************)
\* a date string of the page as the route reads it
DayNumber(dateStr) == DaysFromCivil(dateStr.year, dateStr.month, dateStr.day) - EpochDay

\* the ranges typed: 2023-01-03 or 2023-01-04 to 2023-01-03 or today
TypedRanges ==
    {r \in [start : {SplitDate(4), SplitDate(5)}, end : {SplitDate(4), defaultEnd}] :
        DateErrorOf(r.start, r.end) = "null"}

\* the page at rest with the range typed, its timer due
PageWithTimerDue(r) ==
    LET typed == [PageMounted EXCEPT !.startDate = r.start, !.endDate = r.end]
        due == [queryParams |-> QueryParams(typed), remaining |-> 0]
    IN  [typed EXCEPT
            !.phase = "idle",
            !.validationDeps = ValidationDeps(typed),
            !.fetchDeps = FetchDeps(typed),
            !.handler = due,
            !.timers = {due},
            !.quiet = DebounceTicks,
            !.changes = 2]

\* FRED replies with well-formed observations
PipelineRangeReplies(value) ==
    {OkReply(obs) : obs \in SeqsUpTo([date : RouteDays, value : {value}], MaxRouteObs)}

PipelineLatestReplies(value) ==
    {OkReply(obs) : obs \in SeqsUpTo([date : LatestDays, value : {value}], 1)}
        \cup {r \in FailedReplies : r.httpStatus = 500}

\* the timer fires: fetch('/api/bonds?...') reaches GET, FRED_API_KEY set
PipelineFetch(t) ==
    /\ TimerDue(t)
    /\ route.pc = "idle"
    /\ page' = Fetching(t)
    /\ route' = RouteCalled("test-api-key", t.queryParams.series, t.queryParams.treasury,
                            DayNumber(t.queryParams.start), DayNumber(t.queryParams.end))
    /\ UNCHANGED <<data, disableDateFilter, startDate, endDate, isClient, error, view, phase,
                   cal, fetchStart>>

\* the response of GET reaches fetchData (lines 153-162); with
\* setBondData the page renders BondChart with the new data
PipelineResponse(queryParams) ==
    /\ page.pc = "mounted"
    /\ queryParams \in page.fetches
    /\ route.pc = "done"
    /\ phase = "idle"
    /\ IF route.response.httpStatus = 200
       THEN /\ page' = Settled(queryParams, "ok")
            /\ data' = route.response.chartData
            /\ view' = Render(route.response.chartData, disableDateFilter,
                              startDate, endDate, isClient)
            /\ phase' = "effects"
       ELSE /\ page' = Settled(queryParams, "notOk")
            /\ UNCHANGED <<data, view, phase>>
    /\ UNCHANGED <<disableDateFilter, startDate, endDate, isClient, error, cal, route,
                   fetchStart>>

\* BondChart is mounted with data [] (bondData is null) and settled
PipelineInit ==
    /\ data = <<>>
    /\ disableDateFilter = TRUE
    /\ startDate = EmptyStr
    /\ endDate = EmptyStr
    /\ isClient = TRUE
    /\ error = "null"
    /\ view = Render(<<>>, TRUE, EmptyStr, EmptyStr, TRUE)
    /\ phase = "idle"
    /\ cal = CalIdle
    /\ route = RouteIdle
    /\ fetchStart = FetchStartIdle
    /\ page \in {PageWithTimerDue(r) : r \in TypedRanges}

PipelineNext ==
    \/ \E t \in page.timers : PipelineFetch(t)
    \/ \E r \in PipelineRangeReplies("3.5") : RouteTreasuryReply(r)
    \/ \E r \in PipelineRangeReplies("4.5") : RouteCorporateReply(r)
    \/ \E r \in PipelineLatestReplies("3.7") : RouteLatestTreasuryReply(r)
    \/ \E r \in PipelineLatestReplies("4.7") : RouteLatestCorporateReply(r)
    \/ \E q \in page.fetches : PipelineResponse(q)
    \/ FlushEffects

PipelineSpec == PipelineInit /\ [][PipelineNext]_vars

(***************************************************************************)
(* Vocabulary of the properties.                                           *)
(***************************************************************************)
RowIndices == 1..Len(Rows)

\* indices of the observations of `data` that are valid for their series:
\* Treasury needs a non-null yield, Corporate a yield > 0
ValidTreasuryIdx ==
    {i \in 1..Len(data) : /\ data[i].source = "Treasury"
                           /\ data[i].yield # Null
                           /\ data[i].date >= 0}
ValidCorporateIdx ==
    {i \in 1..Len(data) : /\ data[i].source = "Corporate"
                           /\ data[i].yield > 0
                           /\ data[i].date >= 0}

\* the calendar day of an instant, and the weekdays by the calendar:
\* day 0 is a Friday, so days 1, 2 (mod 7) are Saturday and Sunday
DayOf(t) == t \div TicksPerDay
IsCalendarWeekday(d) == d % 7 \notin {1, 2}
WeekdaysBetween(s, e) == {d \in DayOf(s)..DayOf(e) : IsCalendarWeekday(d)}

\* the latest-dated members of a set of observation indices
LatestOf(idx) == {i \in idx : \A j \in idx : data[j].date <= data[i].date}

(***************************************************************************)
(* C1  Forward-fill completeness: a series with a valid observation dated  *)
(* on or before the range end has a value on every axis day dated on or    *)
(* after its earliest valid observation.                                   *)
(***************************************************************************)
FilledFrom(idx, Value(_)) ==
    LET upToEnd == {i \in idx : ParseDate(data[i].date) <= selectedEnd}
    IN  upToEnd # {} =>
            \A r \in RowIndices :
                (\E i \in idx : data[i].date <= Rows[r].date) => Value(Rows[r]) # Null

TreasuryValue(row) == row.treasury_yield
CorporateValue(row) == row.corporate_yield

C1_ForwardFillComplete ==
    ChartShown => /\ FilledFrom(ValidTreasuryIdx, TreasuryValue)
                /\ FilledFrom(ValidCorporateIdx, CorporateValue)

\* the Corporate half of C1 on its own
C1_CorporateFillComplete ==
    ChartShown => FilledFrom(ValidCorporateIdx, CorporateValue)

(***************************************************************************)
(* C2  Corporate fill: the corporate value of every row is the yield of    *)
(* the latest-dated Corporate observation with yield > 0 dated on or       *)
(* before the row's day, null when there is none; in Scenario A the row of *)
(* 2023-01-03 (day 4) is treasury 3.6, corporate 4.5, spread 90.           *)
(***************************************************************************)
C2_CorporateFill ==
    ChartShown =>
        /\ \A r \in RowIndices :
              LET eligible == {i \in ValidCorporateIdx : data[i].date <= Rows[r].date}
              IN  IF eligible = {}
                  THEN Rows[r].corporate_yield = Null
                  ELSE \E i \in LatestOf(eligible) :
                          Rows[r].corporate_yield = data[i].yield
        /\ data = ScenarioA =>
              \A r \in RowIndices :
                  Rows[r].date = 4 =>
                      /\ Rows[r].treasury_yield = 36
                      /\ Rows[r].corporate_yield = 45
                      /\ Rows[r].spread_yield = 90

\* a row filled from a Corporate observation dated on a weekend, before the
\* row's day, while an older valid observation carries another yield
C2_Witness ==
    /\ ChartShown
    /\ \E r \in RowIndices, i \in ValidCorporateIdx, j \in ValidCorporateIdx :
          /\ ~IsCalendarWeekday(data[i].date)
          /\ data[j].date < data[i].date
          /\ data[i].date < Rows[r].date
          /\ data[j].yield # data[i].yield
          /\ Rows[r].corporate_yield = data[i].yield

(***************************************************************************)
(* C3  Treasury fill with lookback: an axis day without a Treasury         *)
(* observation of its own carries the yield of the most recent Treasury    *)
(* observation dated before it, weekend and pre-axis observations          *)
(* included.                                                               *)
(***************************************************************************)
C3_TreasuryMostRecent ==
    ChartShown =>
        \A r \in RowIndices :
            LET own == {i \in 1..Len(data) : /\ data[i].source = "Treasury"
                                             /\ data[i].date = Rows[r].date}
                before == {i \in ValidTreasuryIdx : data[i].date < Rows[r].date}
            IN  (own = {} /\ before # {}) =>
                    \E i \in LatestOf(before) :
                        Rows[r].treasury_yield = data[i].yield

(***************************************************************************)
(* C4  Dataset Assembler: one row per axis business day, in strictly       *)
(* ascending date order, no date twice; the axis is the weekdays of the    *)
(* selected range.                                                         *)
(***************************************************************************)
C4_OneRowPerBusinessDay ==
    ChartShown =>
        /\ Len(Rows) = Len(BusinessDays)
        /\ Len(Rows) = Cardinality(WeekdaysBetween(selectedStart, selectedEnd))
        /\ \A r \in RowIndices : Rows[r].date = IsoDate(BusinessDays[r])
        /\ \A r \in RowIndices : Rows[r].date \in WeekdaysBetween(selectedStart, selectedEnd)
        /\ \A r \in RowIndices : r > 1 => Rows[r - 1].date < Rows[r].date

\* an axis that spans a weekend and has a row without any value
C4_Witness ==
    /\ ChartShown
    /\ Len(Rows) >= 2
    /\ DayOf(selectedEnd) - DayOf(selectedStart) + 1 > Len(Rows)
    /\ \E r \in RowIndices : /\ Rows[r].treasury_yield = Null
                               /\ Rows[r].corporate_yield = Null

CalResultCorrect ==
    cal.pc = "done" =>
        IF IsInvalid(cal.startDate) \/ IsInvalid(cal.endDate) \/ cal.startDate > cal.endDate
        THEN cal.dates = <<>>
        ELSE /\ {DayOf(cal.dates[i]) : i \in 1..Len(cal.dates)}
                    = WeekdaysBetween(cal.startDate, cal.endDate)
             /\ \A i \in 1..Len(cal.dates) : i > 1 => cal.dates[i - 1] < cal.dates[i]
             /\ (cal.startDate = ParseDate(7) /\ cal.endDate = ParseDate(10))
                    => Len(cal.dates) = 2

C6_BusinessDays ==
    /\ [](CalResultCorrect)
    /\ (cal.pc = "loop") ~> (cal.pc = "done")

\* the call of Scenario B has returned its two days
C6_Witness ==
    /\ cal.pc = "done"
    /\ cal.startDate = ParseDate(7)
    /\ cal.endDate = ParseDate(10)
    /\ cal.dates = <<ParseDate(7), ParseDate(10)>>

C7_WitnessUnparseable ==
    /\ Rendered
    /\ ~disableDateFilter
    /\ startDate = BadStr /\ endDate >= 0
    /\ selectedStart = ParseDate(0)

(***************************************************************************)
(* C8  Outlier trimming (disableDateFilter, at least two Treasury dates):  *)
(* the start is the earliest Treasury date; a gap of more than 7 days      *)
(* between the last two Treasury dates keeps the last date out of the      *)
(* selected end; otherwise the end is the last Treasury date.              *)
(***************************************************************************)
\* the valid Treasury dates of `data`, with multiplicity, by the calendar
TreasuryDayCount(d) ==
    Cardinality({i \in 1..Len(data) : data[i].source = "Treasury" /\ data[i].date = d})
TreasuryDaySet ==
    {data[i].date : i \in {j \in 1..Len(data) : data[j].source = "Treasury" /\ data[j].date >= 0}}
NumTreasuryDates ==
    Cardinality({i \in 1..Len(data) : data[i].source = "Treasury" /\ data[i].date >= 0})
LastDay == SetMax(TreasuryDaySet)
SecondLastDay ==
    IF TreasuryDayCount(LastDay) >= 2 THEN LastDay
    ELSE SetMax(TreasuryDaySet \ {LastDay})
ThirdLastDay ==
    IF TreasuryDayCount(LastDay) >= 3 THEN LastDay
    ELSE IF TreasuryDayCount(LastDay) = 2 THEN SetMax(TreasuryDaySet \ {LastDay})
    ELSE IF TreasuryDayCount(SecondLastDay) >= 2 THEN SecondLastDay
    ELSE SetMax(TreasuryDaySet \ {LastDay, SecondLastDay})

C8_OutlierTrim ==
    (Rendered /\ disableDateFilter /\ NumTreasuryDates >= 2) =>
        /\ selectedStart = ParseDate(SetMin(TreasuryDaySet))
        /\ LastDay - SecondLastDay > 7 =>
                /\ selectedEnd # ParseDate(LastDay)
                /\ DayOf(selectedEnd) \in TreasuryDaySet
        /\ LastDay - SecondLastDay <= 7 => selectedEnd = ParseDate(LastDay)

\* Scenario D: the last date is more than 7 days after the second-to-last,
\* which becomes the end
C8_Witness ==
    /\ Rendered /\ disableDateFilter /\ NumTreasuryDates >= 2
    /\ LastDay - SecondLastDay = 8
    /\ selectedEnd = ParseDate(SecondLastDay)
    /\ selectedStart < selectedEnd

(***************************************************************************)
(* C9  Cascading trim: with gaps of more than 7 days both between the last *)
(* two and between the second- and third-to-last Treasury dates, the end   *)
(* is the third-to-last Treasury date.                                     *)
(***************************************************************************)
C9_CascadingTrim ==
    (/\ Rendered /\ disableDateFilter /\ NumTreasuryDates >= 3
     /\ LastDay - SecondLastDay > 7
     /\ SecondLastDay - ThirdLastDay > 7)
        => selectedEnd = ParseDate(ThirdLastDay)

(***************************************************************************)
(* C10  With the date filter enabled, valid dates in the two inputs stay   *)
(* the selected range on every later render until the user changes them:   *)
(* no effect resets them to the Treasury data bounds.                      *)
(***************************************************************************)
C10_UserDatesPersist ==
    [][(/\ FlushEffects
        /\ Rendered /\ ~disableDateFilter
        /\ startDate >= 0 /\ endDate >= 0 /\ startDate <= endDate)
          => /\ startDate' = startDate
             /\ endDate' = endDate
             /\ selectedStart' = ParseDate(startDate)
             /\ selectedEnd' = ParseDate(endDate)]_vars

(***************************************************************************)
(* C11  Corporate-only input: the range is the Corporate observations'     *)
(* minimum and maximum dates, an axis is produced, and the rows exist with *)
(* every treasury value null.                                              *)
(***************************************************************************)
CorporateDays ==
    {data[i].date : i \in {j \in 1..Len(data) : /\ data[j].source = "Corporate"
                                                 /\ data[j].date >= 0}}

CorporateOnly ==
    /\ phase \in {"effects", "idle"}
    /\ Len(TreasuryData(data)) = 0
    /\ CorporateDays # {}

C11_CorporateOnlyRange ==
    CorporateOnly =>
        /\ selectedStart = ParseDate(SetMin(CorporateDays))
        /\ selectedEnd = ParseDate(SetMax(CorporateDays))
        /\ Len(Rows) = Cardinality(WeekdaysBetween(selectedStart, selectedEnd))
        /\ \A r \in RowIndices : Rows[r].treasury_yield = Null

(***************************************************************************)
(* C12  Data without any Treasury observation (empty or Corporate-only,    *)
(* either filter mode) renders only the message 'No treasury data          *)
(* available for the selected range.': no axis, no rows, no headline       *)
(* values, no chart.                                                       *)
(***************************************************************************)
C12_NoTreasuryMessage ==
    (phase \in {"effects", "idle"} /\ Len(TreasuryData(data)) = 0) =>
        /\ view.screen = "No treasury data available for the selected range."
        /\ BusinessDays = <<>>
        /\ Rows = <<>>
        /\ latestData = NoLatestData

\* Corporate-only data on a weekday, after the effects have run
C12_Witness ==
    /\ CorporateOnly
    /\ ValidCorporateIdx # {}
    /\ IsCalendarWeekday(SetMin(CorporateDays))
    /\ isClient
    /\ view.screen = "No treasury data available for the selected range."

(***************************************************************************)
(* C13  Headline yields: the headline yield of a series is the yield of    *)
(* its latest-dated valid observation within [selectedStart, selectedEnd]  *)
(* (Treasury: a yield that is not null; Corporate: a yield > 0), the       *)
(* observed value itself, and null exactly when the series has no such     *)
(* observation in range.                                                   *)
(***************************************************************************)
InSelectedRange(idx) ==
    {i \in idx : /\ selectedStart <= ParseDate(data[i].date)
                  /\ ParseDate(data[i].date) <= selectedEnd}

HeadlineIs(value, idx) ==
    IF InSelectedRange(idx) = {}
    THEN value = Null
    ELSE \E i \in LatestOf(InSelectedRange(idx)) : value = data[i].yield

C13_HeadlineYields ==
    ChartShown =>
        /\ HeadlineIs(latestData.treasury_yield, ValidTreasuryIdx)
        /\ HeadlineIs(latestData.corporate_yield, ValidCorporateIdx)

\* the Corporate half of C13 on its own
C13_CorporateHeadline ==
    ChartShown => HeadlineIs(latestData.corporate_yield, ValidCorporateIdx)

\* the Treasury half of C13 for data in which every Treasury yield is a number
C13_TreasuryHeadlineNoNulls ==
    (ChartShown /\ \A i \in 1..Len(data) : data[i].yield # Null) =>
        HeadlineIs(latestData.treasury_yield, ValidTreasuryIdx)

DatedTreasuryIdx ==
    {i \in 1..Len(data) : data[i].source = "Treasury" /\ data[i].date >= 0}

LatestDay(idx) == SetMax({data[i].date : i \in idx})

C15_SpreadDate ==
    ChartShown =>
        LET inT == InSelectedRange(DatedTreasuryIdx)
            inC == InSelectedRange(ValidCorporateIdx)
        IN  latestData.spread_date =
                IF inT # {} /\ inC # {}
                THEN (IF LatestDay(inT) > LatestDay(inC)
                      THEN LatestDay(inT) ELSE LatestDay(inC))
                ELSE IF inT # {} THEN LatestDay(inT)
                ELSE IF inC # {} THEN LatestDay(inC)
                ELSE IsoDate(selectedEnd)

\* C15 without its middle case: both series in range, or neither
C15_SpreadDateBothOrNeither ==
    ChartShown =>
        LET inT == InSelectedRange(DatedTreasuryIdx)
            inC == InSelectedRange(ValidCorporateIdx)
        IN  /\ (inT # {} /\ inC # {}) =>
                    latestData.spread_date =
                        (IF LatestDay(inT) > LatestDay(inC)
                         THEN LatestDay(inT) ELSE LatestDay(inC))
            /\ (inT = {} /\ inC = {}) =>
                    latestData.spread_date = IsoDate(selectedEnd)

(***************************************************************************)
(* C16  Display-date capping: every displayed headline date (treasury,     *)
(* corporate, spread) is a day of [selectedStart, selectedEnd]; a series   *)
(* with an in-range observation shows that observation's date, a series    *)
(* without one shows the end of the range.                                 *)
(***************************************************************************)
InWindow(d) == IsoDate(selectedStart) <= d /\ d <= IsoDate(selectedEnd)

ShownDateIs(d, idx) ==
    IF InSelectedRange(idx) # {}
    THEN d = LatestDay(InSelectedRange(idx))
    ELSE d = IsoDate(selectedEnd)

C17_NonPositiveCorporateUnused ==
    ChartShown =>
        /\ latestData.corporate_yield # Null => latestData.corporate_yield > 0
        /\ \A r \in RowIndices :
              LET eligible == {i \in ValidCorporateIdx : data[i].date <= Rows[r].date}
                  c == Rows[r].corporate_yield
              IN  /\ c # Null => c > 0
                  /\ c # Null => \E i \in eligible : data[i].yield = c
                  /\ eligible = {} => c = Null

\* Scenario C: axis days on or after a non-positive Corporate observation
\* have no corporate value, a later day has the first positive one
C17_Witness ==
    /\ ChartShown
    /\ \E r1 \in RowIndices, r2 \in RowIndices, i \in 1..Len(data) :
          /\ data[i].source = "Corporate"
          /\ data[i].yield <= 0 /\ data[i].yield # Null
          /\ data[i].date <= Rows[r1].date
          /\ Rows[r1].corporate_yield = Null
          /\ r1 < r2
          /\ Rows[r2].corporate_yield > 0
    /\ latestData.corporate_yield > 0

(***************************************************************************)
(* C18  Headline/chart consistency: when a series has an in-range          *)
(* observation and the axis is not empty, the headline yield of the series *)
(* equals the series' value in the last row of the charted dataset.        *)
(***************************************************************************)
LastRow == Rows[Len(Rows)]

C18_HeadlineMatchesLastRow ==
    (ChartShown /\ Len(Rows) > 0) =>
        /\ InSelectedRange(DatedTreasuryIdx) # {} =>
                latestData.treasury_yield = LastRow.treasury_yield
        /\ InSelectedRange(ValidCorporateIdx) # {} =>
                latestData.corporate_yield = LastRow.corporate_yield

\* C18 for data in which no yield is null and no series has two
\* observations on one date: the range end on a weekend remains
C18_NoNullsNoDuplicates ==
    (/\ \A i \in 1..Len(data) : data[i].yield # Null
     /\ \A i, j \in 1..Len(data) :
            (i # j /\ data[i].source = data[j].source) => data[i].date # data[j].date)
        => C18_HeadlineMatchesLastRow

\* C18 when, in addition, the selected range ends on a weekday
C18_WeekdayEnd ==
    (/\ \A i \in 1..Len(data) : data[i].yield # Null
     /\ \A i, j \in 1..Len(data) :
            (i # j /\ data[i].source = data[j].source) => data[i].date # data[j].date
     /\ Rendered /\ IsCalendarWeekday(IsoDate(selectedEnd)))
        => C18_HeadlineMatchesLastRow

(***************************************************************************)
(* C19  Partial upstream failure: when both range requests succeed, the    *)
(* response is 200 'success' whatever the two absolute-latest requests do; *)
(* chartData contains every valid range observation, and latestData of a   *)
(* series whose absolute-latest request failed (rejected, no or empty      *)
(* observations, non-numeric value) is the last valid range observation of *)
(* that series, null when there is none.                                   *)
(***************************************************************************)
\* the points of the valid observations of a range reply: the value is a
\* number other than 0
ValidRangePoints(reply, source) ==
    {[date |-> reply.observations[i].date,
      yield |-> ParseFloat(reply.observations[i].value),
      source |-> source] :
        i \in {j \in 1..Len(reply.observations) :
                 ParseFloat(reply.observations[j].value) \notin {NotANumber, 0}}}

LastValidRangePoint(reply, source) ==
    LET valid == {j \in 1..Len(reply.observations) :
                    ParseFloat(reply.observations[j].value) \notin {NotANumber, 0}}
    IN  IF valid = {} THEN NoPoint
        ELSE [date |-> reply.observations[SetMax(valid)].date,
              yield |-> ParseFloat(reply.observations[SetMax(valid)].value),
              source |-> source]

LatestRequestFailed(reply) ==
    \/ reply.kind # "ok"
    \/ reply.observations = <<>>
    \/ ParseFloat(reply.observations[1].value) = NotANumber

RangeRequestsSucceeded ==
    /\ Len(route.replies) >= 2
    /\ route.replies[1].kind = "ok"
    /\ route.replies[2].kind = "ok"

ChartPoints == {route.response.chartData[i] : i \in 1..Len(route.response.chartData)}

C20_PreconditionsInOrder ==
    route.pc # "idle" =>
        /\ route.key \in {NoKey, ""} =>
              /\ route.pc = "done"
              /\ route.response.httpStatus = 500
              /\ route.response.errorType = "ConfigurationError"
              /\ route.requests = <<>>
        /\ (route.key \notin {NoKey, ""}
                /\ (route.series \in {NoParam, ""} \/ route.treasury \in {NoParam, ""})) =>
              /\ route.pc = "done"
              /\ route.response.httpStatus = 400
              /\ route.response.error = "Both series and treasury parameters are required"
              /\ route.requests = <<>>

\* the key and both parameters are missing: the configuration error wins
C20_Witness ==
    /\ route.pc = "done"
    /\ route.key = NoKey
    /\ route.series = NoParam
    /\ route.treasury = NoParam
    /\ route.response.errorType = "ConfigurationError"
    /\ route.requests = <<>>

\* the key is set and one parameter is missing
C20_WitnessMissingParameter ==
    /\ route.pc = "done"
    /\ route.key = "test-api-key"
    /\ route.series = "AAA"
    /\ route.treasury = NoParam
    /\ route.response.httpStatus = 400

(***************************************************************************)
(* C21  A failed range request gives an error response, never a partial    *)
(* success, and no later upstream request: upstream 403 gives status 500   *)
(* with httpStatus 403, upstream 400 gives status 400 with httpStatus 400, *)
(* any other rejection or a response without observations gives 500; the   *)
(* body has status 'error' and a valid timestamp.                          *)
(***************************************************************************)
\* the range requests are the first two upstream requests
RangeReplyFailed(i) ==
    /\ i \in 1..2
    /\ Len(route.replies) >= i
    /\ route.replies[i].kind # "ok"

C21_RangeFailureIsError ==
    \A i \in 1..2 :
        RangeReplyFailed(i) =>
            LET reply == route.replies[i]
                upstream == IF reply.kind = "axiosError" THEN reply.httpStatus ELSE NoStatus
            IN  /\ route.pc = "done"
                /\ Len(route.replies) = i
                /\ Len(route.requests) = i
                /\ route.response.status = "error"
                /\ route.response.chartData = <<>>
                /\ route.response.timestamp # NoTimestamp
                /\ route.response.timestamp = Now
                /\ upstream = 403 =>
                      /\ route.response.httpStatus = 500
                      /\ route.response.upstreamStatus = 403
                /\ upstream = 400 =>
                      /\ route.response.httpStatus = 400
                      /\ route.response.upstreamStatus = 400
                /\ upstream \notin {403, 400} => route.response.httpStatus = 500

\* the Treasury range request succeeds with a valid observation and the
\* Corporate range request is rejected with 403
C21_Witness ==
    /\ RangeReplyFailed(2)
    /\ route.replies[1].kind = "ok"
    /\ route.fredData # <<>>
    /\ route.replies[2].httpStatus = 403
    /\ route.response.httpStatus = 500
    /\ route.response.upstreamStatus = 403

\* the Treasury range response has no observations field
C21_WitnessNoObservations ==
    /\ RangeReplyFailed(1)
    /\ route.replies[1].kind = "noObservations"
    /\ route.response.httpStatus = 500
    /\ route.response.errorType = "Error"

(***************************************************************************)
(* C23  The absolute-latest merge never creates a duplicate: the latest    *)
(* point of a series is appended only when chartData has no point of the   *)
(* same date and source, so when each range response has distinct dates,   *)
(* chartData holds at most one point per (date, source) pair.              *)
(***************************************************************************)
DistinctDates(reply) ==
    \A i, j \in 1..Len(reply.observations) :
        i # j => reply.observations[i].date # reply.observations[j].date

PointsAt(date, source) ==
    {i \in 1..Len(route.response.chartData) :
        /\ route.response.chartData[i].date = date
        /\ route.response.chartData[i].source = source}

C23_NoDuplicatePoint ==
    (/\ route.pc = "done"
     /\ RangeRequestsSucceeded
     /\ DistinctDates(route.replies[1])
     /\ DistinctDates(route.replies[2])) =>
        \A d \in RouteDays \cup LatestDays, src \in {"Treasury", "Corporate"} :
            Cardinality(PointsAt(d, src)) <= 1

\* the absolute-latest Treasury point has the date of a kept range
\* observation and another value: it is not appended; the absolute-latest
\* Corporate point has a date of its own and is appended
C23_Witness ==
    /\ route.pc = "done"
    /\ RangeRequestsSucceeded
    /\ DistinctDates(route.replies[1])
    /\ DistinctDates(route.replies[2])
    /\ route.absoluteLatestTreasury # NoPoint
    /\ \E i \in 1..Len(route.fredData) :
          /\ route.fredData[i].date = route.absoluteLatestTreasury.date
          /\ route.fredData[i].yield # route.absoluteLatestTreasury.yield
    /\ route.absoluteLatestTreasury \notin ChartPoints
    /\ Cardinality(PointsAt(route.absoluteLatestTreasury.date, "Treasury")) = 1
    /\ \E i \in 1..Len(route.response.chartData) :
          /\ route.response.chartData[i].source = "Corporate"
          /\ route.response.chartData[i].yield = 47
          /\ \A j \in 1..Len(route.corporateData) :
                route.corporateData[j].date # route.response.chartData[i].date

(***************************************************************************)
(* C30  The upstream observation_start is the requested start moved back   *)
(* exactly one calendar month: the same day of month in the previous       *)
(* month, clamped to that month's last day, with January rolling over to   *)
(* December of the previous year; for every valid requested start the      *)
(* result is a valid date strictly earlier than the requested start.       *)
(***************************************************************************)
OneMonthBack(date) ==
    LET y == IF date.month = 1 THEN date.year - 1 ELSE date.year
        m == IF date.month = 1 THEN 12 ELSE date.month - 1
        last == DaysInMonth(y, m)
    IN  [year |-> y, month |-> m, day |-> IF date.day < last THEN date.day ELSE last]

DateBefore(a, b) ==
    \/ a.year < b.year
    \/ a.year = b.year /\ a.month < b.month
    \/ a.year = b.year /\ a.month = b.month /\ a.day < b.day

C30_OneMonthBack ==
    fetchStart.pc = "done" =>
        /\ fetchStart.fetchStartDate = OneMonthBack(fetchStart.requestedStartDate)
        /\ IsValidDate(fetchStart.fetchStartDate)
        /\ DateBefore(fetchStart.fetchStartDate, fetchStart.requestedStartDate)

\* the same for the requested starts from year 101 on, whose previous month
\* lies in a year that Date.UTC takes as it is
C30_FromYear101 ==
    (fetchStart.pc = "done" /\ fetchStart.requestedStartDate.year >= 101) =>
        /\ fetchStart.fetchStartDate = OneMonthBack(fetchStart.requestedStartDate)
        /\ IsValidDate(fetchStart.fetchStartDate)
        /\ DateBefore(fetchStart.fetchStartDate, fetchStart.requestedStartDate)

\* clamping in a leap year and the roll over to December are computed
C30_ClampedAndRolledOver ==
    fetchStart.pc = "done" =>
        /\ fetchStart.requestedStartDate = [year |-> 2024, month |-> 3, day |-> 31]
              => fetchStart.fetchStartDate = [year |-> 2024, month |-> 2, day |-> 29]
        /\ fetchStart.requestedStartDate = [year |-> 2023, month |-> 3, day |-> 31]
              => fetchStart.fetchStartDate = [year |-> 2023, month |-> 2, day |-> 28]
        /\ fetchStart.requestedStartDate = [year |-> 2023, month |-> 1, day |-> 31]
              => fetchStart.fetchStartDate = [year |-> 2022, month |-> 12, day |-> 31]

(***************************************************************************)
(* C22  The start and end query parameters are sent unchanged as           *)
(* observation_start and observation_end on both range requests (Treasury  *)
(* and Corporate).                                                         *)
(***************************************************************************)
RangeRequests ==
    {i \in 1..Len(route.requests) :
        route.requests[i].name \in {"rangeTreasury", "rangeCorporate"}}

DatesGiven == route.start >= 0 /\ route.end >= 0

C22_DatesSentUnchanged ==
    DatesGiven =>
        \A i \in RangeRequests :
            /\ route.requests[i].observation_start = SplitDate(route.start)
            /\ route.requests[i].observation_end = route.end

\* what the two range URLs carry: the end parameter as it is, and the date
\* one calendar month before the start parameter
C22_EndUnchangedStartMonthBack ==
    DatesGiven =>
        \A i \in RangeRequests :
            /\ route.requests[i].observation_end = route.end
            /\ route.requests[i].observation_start = OneMonthBack(SplitDate(route.start))

\* both range requests have been sent for a call with start and end
C22_BothRangeRequestsSent ==
    /\ DatesGiven
    /\ Cardinality(RangeRequests) = 2

(***************************************************************************)
(* C26  Treasury fill never carries a value backward: an axis day dated    *)
(* before every Treasury observation has no Treasury value (null).         *)
(***************************************************************************)
BeforeEveryTreasuryObservation(row) ==
    \A i \in DatedTreasuryIdx : row.date < data[i].date

C26_NoBackwardCarry ==
    ChartShown =>
        \A r \in RowIndices :
            BeforeEveryTreasuryObservation(Rows[r]) => TreasuryValue(Rows[r]) = Null


\* the same once the effects have settled: the range then starts at the
\* earliest Treasury date
C26_SettledRange ==
    (ChartShown /\ phase = "idle") =>
        \A r \in RowIndices :
            BeforeEveryTreasuryObservation(Rows[r]) => TreasuryValue(Rows[r]) = Null


(***************************************************************************)
(* BondsPage: the fetches it issues.                                       *)
(***************************************************************************)
TodayDate == SplitDate(Today)

\* start and end are calendar dates YYYY-MM-DD within [1600-01-01, today],
\* and start is not after end
ValidRange(q) ==
    /\ q.start.year \in 0..9999 /\ IsValidDate(q.start)
    /\ q.end.year \in 0..9999 /\ IsValidDate(q.end)
    /\ ~DateBefore(q.start, [year |-> 1600, month |-> 1, day |-> 1])
    /\ ~DateBefore(TodayDate, q.start)
    /\ ~DateBefore(q.end, [year |-> 1600, month |-> 1, day |-> 1])
    /\ ~DateBefore(TodayDate, q.end)
    /\ ~DateBefore(q.end, q.start)

\* the fetches in flight and the last fetch issued
IssuedFetches == (page.fetches \cup {page.lastIssued}) \ {NoRequest}

\* C24: BondsPage never issues a fetch whose start or end is not a valid
\* YYYY-MM-DD calendar date, lies outside [1600-01-01, today], or has start
\* after end; a debounce timer scheduled with such a range while dateError
\* was still null is cancelled before it fires.
C24_OnlyValidRangesFetched == \A q \in IssuedFetches : ValidRange(q)

\* a timer carrying an invalid range is pending: it was scheduled by the
\* render in which the input became invalid, dateError being still null
C24_Witness ==
    /\ \E t \in page.timers : ~ValidRange(t.queryParams)
    /\ page.lastIssued # NoRequest


\* a step that issues a fetch
FetchIssued == page'.issued # page.issued

\* C25: a fetch is issued only when 500 ms have elapsed without any change to
\* the selected series, the start date, the end date or the date error;
\* every such change cancels the pending timer: at most one timer is
\* pending, it was started at the last change and carries the current
\* values, so a burst of changes produces at most one fetch, the fetch
\* carries the final values, and no timer is left when it is issued.
C25_Debounce ==
    /\ [](Cardinality(page.timers) <= 1)
    /\ [](page.phase = "idle" =>
            \A t \in page.timers :
                /\ t.queryParams = QueryParams(page)
                /\ t.remaining = DebounceTicks - page.quiet)
    /\ [][FetchIssued =>
            /\ page.quiet >= DebounceTicks
            /\ page'.issued = page.issued + 1
            /\ page'.lastIssued = QueryParams(page)
            /\ page'.timers = {}]_vars

\* both selects were changed and one fetch was ever issued: the timers of
\* the mount and of the first change were cancelled, the fetch carries the
\* values of the second change
C25_Witness ==
    /\ page.changes = 2
    /\ page.issued = 1
    /\ page.fresh
    /\ page.lastIssued =
          [series |-> "DBAA", treasury |-> "DGS2", start |-> defaultStart, end |-> defaultEnd]


\* every issued fetch has completed, its response was ok, and no error is
\* displayed
AllFetchesCompleted ==
    /\ page.lastIssued # NoRequest
    /\ page.fetches = {}
    /\ page.error = "null"

\* C27: after every issued fetch has completed, the bondData passed to the
\* chart is the response of the most recently issued fetch; a slower
\* response to an earlier request never overwrites the response to a later
\* request.
C27_LatestResponseShown == AllFetchesCompleted => page.bondData = page.lastIssued

\* what holds of bondData: it is the response of some fetch that was
\* issued, the one that completed last
C27_SomeIssuedResponseShown ==
    page.bondData # NoRequest => ValidRange(page.bondData) /\ page.issued >= 1

\* two fetches are in flight at once
C27_TwoInFlight == Cardinality(page.fetches) = 2


\* the valid requests the selects and the inputs can form
ValidRequests ==
    {q \in [series : PageCorporateSeries, treasury : PageTreasurySeries,
            start : StartInputs \cup {defaultStart}, end : EndInputs \cup {defaultEnd}] :
        ValidRange(q)}

\* the page is at rest between two events, its series and range are valid
\* and no fetch error is displayed
ValidAtRest ==
    /\ page.phase = "idle"
    /\ QueryParams(page) \in ValidRequests
    /\ page.error = "null"

\* the fetch carrying the current series, start and end has been issued
\* since the last change
CurrentFetchIssued == page.fresh /\ page.lastIssued = QueryParams(page)

\* the user has changed a select or an input: its render is pending
UserChanged == page.phase = "effects"

\* C29: if the user stops changing the inputs while the series and the date
\* range are valid and no fetch error is displayed, then, the timer firing
\* when it is due, a fetch carrying exactly the current series, start and
\* end is eventually issued; also after the range was invalid and became
\* valid again.
C29_FetchEventuallyIssued ==
    ValidAtRest ~> (CurrentFetchIssued \/ UserChanged \/ page.error # "null")

\* the range was invalid, became valid again, and the fetch with the
\* current values has been issued
C29_Witness ==
    /\ page.recovered
    /\ page.fresh
    /\ page.lastIssued = QueryParams(page)
    /\ page.lastIssued \in ValidRequests


\* the chart shows the response to the request with start S and end E
ChartOfRequest == page.bondData # NoRequest /\ Len(TreasuryData(data)) > 0

\* C28: end to end, for a request with start S and end E, every row of the
\* charted dataset has a date within [S, E]: the extra month fetched before
\* S is used only for forward-filling, and an absolute-latest point dated
\* after E never extends the axis.
C28_RowsWithinRequest ==
    ChartOfRequest =>
        \A i \in 1..Len(Rows) :
            /\ DayNumber(page.bondData.start) <= Rows[i].date
            /\ Rows[i].date <= DayNumber(page.bondData.end)

\* what holds: the rows lie between the first day fetched, one month before
\* S, and the later one of E and the absolute-latest Treasury date
C28_RowsWithinFetched ==
    ChartOfRequest =>
        \A i \in 1..Len(Rows) :
            /\ DayNumber(route.fetchStartDate) <= Rows[i].date
            /\ \/ Rows[i].date <= DayNumber(page.bondData.end)
               \/ /\ route.absoluteLatestTreasury # NoPoint
                  /\ Rows[i].date <= route.absoluteLatestTreasury.date

\* a chart of a successful response with rows is on screen
C28_ChartRendered == ChartOfRequest /\ phase = "idle" /\ Len(Rows) > 0

====
